---- MODULE Spec2Model ----
(***************************************************************************)
(* Event-to-insight pipeline of order-ai-insight: the Lambda handler       *)
(* (lambda/src/index.ts), the order processor, the prompt builder, the AI  *)
(* service and the HTTP client it drives (specification Spec), and the     *)
(* ingestion endpoint of the app with its table (specification            *)
(* SpecIngest).                                                            *)
(*                                                                         *)
(* Representation.  An optional JavaScript value (undefined / null /       *)
(* missing key) is a sequence of length at most one: None is <<>> and      *)
(* Some(v) is <<v>>.  A JSON object is a record whose optional keys may be *)
(* missing from its DOMAIN.  Money is counted in cents; NaN is the value   *)
(* parseFloat gives for a malformed numeric string.  A function that may   *)
(* throw returns Return(v) or Throw(message).                              *)
(***************************************************************************)
EXTENDS Integers, Sequences, FiniteSets, TLC

None == << >>
Some(v) == << v >>
IsSome(o) == o # None
Val(o) == o[1]

Return(v) == [threw |-> FALSE, val |-> v]
ThrowC(c, m) == [threw |-> TRUE, cls |-> c, msg |-> m]
Throw(m) == ThrowC("Error", m)

(***************************************************************************)
(* Bounds of the model.                                                    *)
(***************************************************************************)
MaxOrders == 5

(***************************************************************************)
(* Program constants.                                                      *)
(***************************************************************************)
FirstTimeMaxOrders == 1
VipMinOrders == 5
VipMinSpend == 500
FallbackWindowMs == 60000
CentsPerUnit == 100
MsPerDay == 86400000
NaN == -1

ShopifyNamespace == "shopify.com"
ErrorInsightText == "Error generating insight"

(***************************************************************************)
(* Process environment (process.env).  An unset variable and an empty      *)
(* string are both falsy; both are None here.                              *)
(***************************************************************************)
Envs ==
  [ REMIX_APP_URL : {None, Some("https://app.example")},
    HMAC_SECRET : {None, Some("s3cret")},
    SHOPIFY_SHOP_DOMAIN : {None, Some("fallback.myshopify.com")},
    OPENAI_API_KEY : {None, Some("sk-key")},
    INCLUDE_CUSTOMER_NAME : {None, Some("true"), Some("TRUE")} ]

(* JavaScript truthiness of an optional string / number *)
TruthyStr(o) == IsSome(o) /\ Val(o) # ""
TruthyNum(o) == IsSome(o) /\ Val(o) # 0 /\ Val(o) # NaN

(***************************************************************************)
(* Inbound events.  event.source is a string, kept as the sequence of its  *)
(* "/"-separated segments so that String.includes can be computed.         *)
(***************************************************************************)
Sources ==
  { None,
    Some(<< "some.other.partner" >>),
    Some(<< "aws.partner", "shopify.com", "orders" >>) }

(* Order bodies: the fields of an order other than its id and customer.    *)
OrderBodies ==
  { [ name |-> Some("#1001"), total_price |-> "85.00", currency |-> "USD",
      line_items |-> Some(<< [title |-> "Mug", quantity |-> 1, price |-> "42.50"],
                             [title |-> "Tee", quantity |-> 1, price |-> "42.50"] >>),
      discount_codes |-> << >> ],
    [ name |-> Some("#1001"), total_price |-> "85.00", currency |-> "USD",
      line_items |-> Some(<< [title |-> "Mug", quantity |-> 2, price |-> "42.50"] >>),
      discount_codes |-> << [code |-> "SAVE10"] >> ],
    [ name |-> None, total_price |-> "85.00", currency |-> "USD",
      line_items |-> Some(<< [title |-> "Mug", quantity |-> 2, price |-> "42.50"] >>),
      discount_codes |-> << >> ],
    [ name |-> Some("#1001"), total_price |-> "abc", currency |-> "USD",
      line_items |-> Some(<< [title |-> "Mug", quantity |-> 2, price |-> "abc"] >>),
      discount_codes |-> << >> ],
    [ name |-> Some("#1001"), total_price |-> "85.00", currency |-> "USD",
      line_items |-> None,
      discount_codes |-> << >> ] }

(* Timestamps are milliseconds.  A pair is (order.created_at,              *)
(* customer.created_at).                                                   *)
CreatedAtPairs ==
  { << Some(60000), Some(0) >>, << Some(60000), Some(1) >>,
    << None, Some(0) >>, << Some(60000), None >> }
Nows == { 30000, 86400000 + 30000 }

LinkedCustomer(first, created) ==
  Some([ id |-> Some(77), first_name |-> first, last_name |-> Some("Lee"), created_at |-> created,
         orders_count |-> Some(1) ])

(* customer / created_at of an order: guest checkout (no customer, or a    *)
(* customer object without an id), or a linked customer.                   *)
CustomerParts ==
  { [ customer |-> None, created_at |-> Some(60000) ],
    [ customer |-> Some([ id |-> None, first_name |-> Some("Ann"),
                          last_name |-> Some("Lee"), created_at |-> Some(0) ]),
      created_at |-> Some(60000) ],
    [ customer |-> Some([ id |-> Some(0), first_name |-> Some("Ann"),
                          last_name |-> Some("Lee"), created_at |-> Some(0) ]),
      created_at |-> Some(60000) ] }
  \cup { [ customer |-> LinkedCustomer(Some("Ann"), p[2]), created_at |-> p[1] ] :
           p \in CreatedAtPairs }
  \cup { [ customer |-> LinkedCustomer(None, Some(0)), created_at |-> Some(60000) ] }

MkOrder(id, body, cp) ==
  [ id |-> id, name |-> body.name, total_price |-> body.total_price,
    currency |-> body.currency, line_items |-> body.line_items,
    discount_codes |-> body.discount_codes,
    customer |-> cp.customer, created_at |-> cp.created_at ]

PlainBody == CHOOSE b \in OrderBodies :
               IsSome(b.name) /\ IsSome(b.line_items) /\ b.total_price = "85.00" /\ b.discount_codes = << >>
GuestPart == [ customer |-> None, created_at |-> Some(60000) ]
LinkedPart == [ customer |-> LinkedCustomer(Some("Ann"), Some(0)), created_at |-> Some(60000) ]

Metadatas ==
  { None,
    Some([ Topic |-> "orders/create" ]),
    Some([ Topic |-> "orders/create", ShopDomain |-> "" ]),
    Some([ Topic |-> "orders/create", ShopDomain |-> "shop-a.myshopify.com" ]) }

(* Events that exercise the boundary checks: every source, detail,        *)
(* metadata and order id, around two plain orders.                        *)
BoundaryEvents ==
  { [ source |-> src, detail |-> None ] : src \in Sources }
  \cup { [ source |-> src, detail |-> Some([ metadata |-> m, payload |-> None ]) ] :
           src \in Sources, m \in Metadatas }
  \cup { [ source |-> src,
           detail |-> Some([ metadata |-> m, payload |-> Some(MkOrder(id, PlainBody, cp)) ]) ] :
           src \in Sources, m \in Metadatas,
           id \in { None, Some(0), Some(1001) }, cp \in { GuestPart, LinkedPart } }

(* Events from the partner namespace with an order id: every order body   *)
(* and customer.                                                          *)
PipelineEvents ==
  { [ source |-> Some(<< "aws.partner", "shopify.com", "orders" >>),
      detail |-> Some([ metadata |-> m, payload |-> Some(MkOrder(Some(1001), body, cp)) ]) ] :
      m \in { None, Some([ Topic |-> "orders/create", ShopDomain |-> "shop-a.myshopify.com" ]) },
      body \in OrderBodies, cp \in CustomerParts }

Events == BoundaryEvents \cup PipelineEvents

(***************************************************************************)
(* orderProcessor.ts                                                       *)
(***************************************************************************)
(* parseFloat on the price strings of the model: a decimal string gives    *)
(* its value (in cents), anything else NaN.                                *)
parseFloat(s) ==
  CASE s = "85.00" -> 8500
    [] s = "42.50" -> 4250
    [] s = "523.50" -> 52350
    [] s = "0.00" -> 0
    [] OTHER -> NaN

RECURSIVE SumQuantity(_)
SumQuantity(items) ==
  IF items = << >> THEN 0
  ELSE Head(items).quantity + SumQuantity(Tail(items))

processOrderData(order) ==
  IF ~IsSome(order.line_items)
  THEN ThrowC("TypeError", "Cannot read properties of undefined (reading 'map')")
  ELSE Return(
    [ orderId |-> IF IsSome(order.id) THEN ToString(Val(order.id)) ELSE "undefined",
      orderName |-> order.name,
      totalPrice |-> parseFloat(order.total_price),
      currency |-> order.currency,
      lineItems |-> [ i \in DOMAIN Val(order.line_items) |->
                        [ title |-> Val(order.line_items)[i].title,
                          quantity |-> Val(order.line_items)[i].quantity,
                          price |-> parseFloat(Val(order.line_items)[i].price) ] ],
      discountCodes |-> [ i \in DOMAIN order.discount_codes |-> order.discount_codes[i].code ],
      hasDiscount |-> Len(order.discount_codes) > 0,
      itemCount |-> SumQuantity(Val(order.line_items)) ])

(* A classifier that tests the vip rule before the first-time rule *)
determineCustomerTypeVipFirst(ordersCount, totalSpent) ==
  IF ordersCount >= VipMinOrders \/ totalSpent >= VipMinSpend * CentsPerUnit THEN "vip"
  ELSE IF ordersCount <= FirstTimeMaxOrders THEN "first-time"
  ELSE "repeat"

(* A classifier whose vip rule starts at four orders *)
determineCustomerTypeFourOrders(ordersCount, totalSpent) ==
  IF ordersCount <= FirstTimeMaxOrders THEN "first-time"
  ELSE IF ordersCount >= VipMinOrders - 1 \/ totalSpent >= VipMinSpend * CentsPerUnit THEN "vip"
  ELSE "repeat"

determineCustomerType(ordersCount, totalSpent) ==
  IF ordersCount <= FirstTimeMaxOrders THEN "first-time"
  ELSE IF ordersCount >= VipMinOrders \/ totalSpent >= VipMinSpend * CentsPerUnit THEN "vip"
  ELSE "repeat"

GuestCustomerData ==
  [ firstName |-> None, lastName |-> None, ordersCount |-> 1, totalSpent |-> 0,
    isFirstOrder |-> TRUE, customerType |-> "first-time", daysSinceFirstOrder |-> None ]

DaysSince(createdAt, now) ==
  IF IsSome(createdAt) THEN Some((now - Val(createdAt)) \div MsPerDay) ELSE None

processCustomerDataFromAPI(apiData, now) ==
  IF ~IsSome(apiData) THEN GuestCustomerData
  ELSE
    [ firstName |-> Val(apiData).firstName,
      lastName |-> Val(apiData).lastName,
      ordersCount |-> Val(apiData).numberOfOrders,
      totalSpent |-> Val(apiData).amountSpent,
      isFirstOrder |-> Val(apiData).numberOfOrders <= FirstTimeMaxOrders,
      customerType |-> determineCustomerType(Val(apiData).numberOfOrders, Val(apiData).amountSpent),
      daysSinceFirstOrder |-> DaysSince(Val(apiData).createdAt, now) ]

Abs(n) == IF n < 0 THEN -n ELSE n

(* A heuristic whose window includes a gap of exactly the threshold *)
fallbackHeuristicInclusive(customer, orderCreatedAt, now) ==
  LET customerCreatedAt == customer.created_at
      orderTime == IF IsSome(orderCreatedAt) THEN Val(orderCreatedAt) ELSE now
      timeDiffMs == IF IsSome(customerCreatedAt)
                    THEN Abs(orderTime - Val(customerCreatedAt)) ELSE 0
      isFirstOrder == timeDiffMs <= FallbackWindowMs
  IN [ firstName |-> IF TruthyStr(customer.first_name) THEN customer.first_name ELSE None,
       lastName |-> IF TruthyStr(customer.last_name) THEN customer.last_name ELSE None,
       ordersCount |-> IF isFirstOrder THEN 1 ELSE 2,
       totalSpent |-> 0,
       isFirstOrder |-> isFirstOrder,
       customerType |-> IF isFirstOrder THEN "first-time" ELSE "repeat",
       daysSinceFirstOrder |-> DaysSince(customerCreatedAt, now) ]

(* orderProcessor.ts:114-146: the heuristic for a customer of the webhook *)
fallbackHeuristic(customer, orderCreatedAt, now) ==
  LET customerCreatedAt == customer.created_at
      orderTime == IF IsSome(orderCreatedAt) THEN Val(orderCreatedAt) ELSE now
      timeDiffMs == IF IsSome(customerCreatedAt)
                    THEN Abs(orderTime - Val(customerCreatedAt)) ELSE 0
      isFirstOrder == timeDiffMs < FallbackWindowMs
  IN [ firstName |-> IF TruthyStr(customer.first_name) THEN customer.first_name ELSE None,
       lastName |-> IF TruthyStr(customer.last_name) THEN customer.last_name ELSE None,
       ordersCount |-> IF isFirstOrder THEN 1 ELSE 2,
       totalSpent |-> 0,
       isFirstOrder |-> isFirstOrder,
       customerType |-> IF isFirstOrder THEN "first-time" ELSE "repeat",
       daysSinceFirstOrder |-> DaysSince(customerCreatedAt, now) ]

(* A fallback that treats a missing customer as an unknown returning one *)
processCustomerDataFallbackGuestRepeat(customer, orderCreatedAt, now) ==
  IF ~IsSome(customer)
  THEN [ GuestCustomerData EXCEPT !.ordersCount = 2, !.isFirstOrder = FALSE,
                                  !.customerType = "repeat" ]
  ELSE fallbackHeuristic(Val(customer), orderCreatedAt, now)

processCustomerDataFallback(customer, orderCreatedAt, now) ==
  IF ~IsSome(customer) THEN GuestCustomerData
  ELSE fallbackHeuristic(Val(customer), orderCreatedAt, now)

ShopDomainMissing == "Shop domain not found in event metadata or environment variables"

(* A shop-domain lookup that falls back to a default instead of throwing *)
extractShopDomainDefault(metadata, e) ==
  IF IsSome(metadata) /\ "ShopDomain" \in DOMAIN Val(metadata) /\ Val(metadata).ShopDomain # ""
  THEN Return(Val(metadata).ShopDomain)
  ELSE IF TruthyStr(e.SHOPIFY_SHOP_DOMAIN) THEN Return(Val(e.SHOPIFY_SHOP_DOMAIN))
  ELSE Return("unknown.myshopify.com")

extractShopDomain(metadata, e) ==
  IF IsSome(metadata) /\ "ShopDomain" \in DOMAIN Val(metadata) /\ Val(metadata).ShopDomain # ""
  THEN Return(Val(metadata).ShopDomain)
  ELSE IF TruthyStr(e.SHOPIFY_SHOP_DOMAIN) THEN Return(Val(e.SHOPIFY_SHOP_DOMAIN))
  ELSE Throw(ShopDomainMissing)

(***************************************************************************)
(* promptBuilder.ts.  The prompt is a fixed template around the rendered   *)
(* parts below; it is kept as the record of those parts.                   *)
(***************************************************************************)
NeutralName == "the customer"

(* Number.prototype.toFixed(2) of an amount held in cents *)
toFixed2(n) ==
  IF n = NaN THEN "NaN"
  ELSE ToString(n \div CentsPerUnit) \o "." \o
       ToString((n % CentsPerUnit) \div 10) \o ToString(n % 10)

RECURSIVE Join(_, _)
Join(strs, sep) ==
  IF strs = << >> THEN ""
  ELSE IF Len(strs) = 1 THEN Head(strs)
  ELSE Head(strs) \o sep \o Join(Tail(strs), sep)

getCustomerTypeInstructions(customerData) ==
  CASE customerData.customerType = "first-time" -> "FOCUS AREA (First-Time Customer)"
    [] customerData.customerType = "vip" ->
         "FOCUS AREA (VIP Customer - " \o ToString(customerData.ordersCount) \o " orders, $"
           \o toFixed2(customerData.totalSpent) \o " LTV)"
    [] customerData.customerType = "repeat" ->
         "FOCUS AREA (Repeat Customer - " \o ToString(customerData.ordersCount) \o " orders)"
    [] OTHER -> ""

(* A prompt that names the customer whatever the setting *)
buildPromptNamed(orderData, customerData, includeCustomerName) ==
  [ orderTotal |-> orderData.currency \o " " \o toFixed2(orderData.totalPrice),
    items |-> Join([ i \in DOMAIN orderData.lineItems |->
                       orderData.lineItems[i].title \o " (x"
                         \o ToString(orderData.lineItems[i].quantity) \o ")" ], ", "),
    quantity |-> ToString(orderData.itemCount) \o " items",
    discountUsed |-> IF orderData.hasDiscount
                     THEN "Yes (" \o Join(orderData.discountCodes, ", ") \o ")"
                     ELSE "No",
    customer |-> IF TruthyStr(customerData.firstName)
                 THEN Val(customerData.firstName) ELSE NeutralName,
    totalOrders |-> ToString(customerData.ordersCount),
    lifetimeSpend |-> "$" \o toFixed2(customerData.totalSpent),
    customerType |-> customerData.customerType,
    daysSinceFirstOrder |-> IF IsSome(customerData.daysSinceFirstOrder)
                            THEN "- Days Since First Order: "
                                   \o ToString(Val(customerData.daysSinceFirstOrder))
                            ELSE "",
    focus |-> getCustomerTypeInstructions(customerData) ]

buildPrompt(orderData, customerData, includeCustomerName) ==
  [ orderTotal |-> orderData.currency \o " " \o toFixed2(orderData.totalPrice),
    items |-> Join([ i \in DOMAIN orderData.lineItems |->
                       orderData.lineItems[i].title \o " (x"
                         \o ToString(orderData.lineItems[i].quantity) \o ")" ], ", "),
    quantity |-> ToString(orderData.itemCount) \o " items",
    discountUsed |-> IF orderData.hasDiscount
                     THEN "Yes (" \o Join(orderData.discountCodes, ", ") \o ")"
                     ELSE "No",
    customer |-> IF includeCustomerName
                 THEN IF TruthyStr(customerData.firstName)
                      THEN Val(customerData.firstName) ELSE NeutralName
                 ELSE NeutralName,
    totalOrders |-> ToString(customerData.ordersCount),
    lifetimeSpend |-> "$" \o toFixed2(customerData.totalSpent),
    customerType |-> customerData.customerType,
    daysSinceFirstOrder |-> IF IsSome(customerData.daysSinceFirstOrder)
                            THEN "- Days Since First Order: "
                                   \o ToString(Val(customerData.daysSinceFirstOrder))
                            ELSE "",
    focus |-> getCustomerTypeInstructions(customerData) ]

(***************************************************************************)
(* aiService.ts                                                            *)
(***************************************************************************)
ApiKeyMissing == "OPENAI_API_KEY environment variable is not set"
EmptyResponse == "Empty response from OpenAI"
MalformedResponse == "AI response was not valid JSON"
MissingInsight == "Invalid AI response: missing or invalid 'insight' field"
MissingSubject == "Invalid AI response: missing or invalid 'followupSubject' field"
MissingBody == "Invalid AI response: missing or invalid 'followupBody' field"
ConnectionError == "Connection error."

(* A JSON value of the completion object: a string or a number *)
JStr(s) == [ type |-> "string", v |-> s ]
JNum == [ type |-> "number" ]

(* What the completion provider can answer: the request fails, or it      *)
(* resolves with a message content that is missing, empty, not JSON, or   *)
(* a JSON object.                                                         *)
AIObjects ==
  { [ insight |-> JStr("Welcome them"), followupSubject |-> JStr("Thanks"), followupBody |-> JStr("Hi") ],
    [ followupSubject |-> JStr("Thanks"), followupBody |-> JStr("Hi") ],
    [ insight |-> JNum, followupSubject |-> JStr("Thanks"), followupBody |-> JStr("Hi") ],
    [ insight |-> JStr("Welcome them"), followupSubject |-> JStr(""), followupBody |-> JStr("Hi") ],
    [ insight |-> JStr("Welcome them"), followupSubject |-> JStr("Thanks") ] }

AIResponses ==
  { [ kind |-> "rejected", msg |-> ConnectionError ],
    [ kind |-> "resolved", content |-> None ],
    [ kind |-> "resolved", content |-> Some([ text |-> "empty" ]) ],
    [ kind |-> "resolved", content |-> Some([ text |-> "not-json" ]) ] }
  \cup { [ kind |-> "resolved", content |-> Some([ text |-> "json", obj |-> o ]) ] : o \in AIObjects }

(* A client that serves one invocation only *)
getOpenAIClientOnce(client, e) ==
  IF ~IsSome(client)
  THEN IF ~TruthyStr(e.OPENAI_API_KEY) THEN Throw(ApiKeyMissing)
       ELSE Return(Some([ apiKey |-> Val(e.OPENAI_API_KEY) ]))
  ELSE Throw(ConnectionError)

getOpenAIClient(client, e) ==
  IF ~IsSome(client)
  THEN IF ~TruthyStr(e.OPENAI_API_KEY) THEN Throw(ApiKeyMissing)
       ELSE Return(Some([ apiKey |-> Val(e.OPENAI_API_KEY) ]))
  ELSE Return(client)

JSONparse(text) ==
  IF text.text = "json" THEN Return(text.obj)
  ELSE ThrowC("SyntaxError", "Unexpected token")

(* !parsed.f || typeof parsed.f !== "string" *)
FieldInvalid(parsed, f) ==
  \/ f \notin DOMAIN parsed
  \/ parsed[f].type # "string"
  \/ parsed[f].v = ""

(* aiService.ts:47-74, the body of the try block after the await *)
ValidateCompletion(response) ==
  IF response.kind = "rejected" THEN Throw(response.msg)
  ELSE IF ~IsSome(response.content) \/ Val(response.content).text = "empty"
  THEN Throw(EmptyResponse)
  ELSE LET parsed == JSONparse(Val(response.content))
       IN IF parsed.threw THEN parsed
          ELSE IF FieldInvalid(parsed.val, "insight") THEN Throw(MissingInsight)
          ELSE IF FieldInvalid(parsed.val, "followupSubject") THEN Throw(MissingSubject)
          ELSE IF FieldInvalid(parsed.val, "followupBody") THEN Throw(MissingBody)
          ELSE Return(parsed.val)

(* A generator that lets the parser's own error through *)
generateInsightResultRaw(response) == ValidateCompletion(response)

(* generateInsight after the provider has answered: the try block and the *)
(* catch that rewrites a SyntaxError                                      *)
generateInsightResult(response) ==
  LET r == ValidateCompletion(response)
  IN IF r.threw /\ r.cls = "SyntaxError" THEN Throw(MalformedResponse) ELSE r

(***************************************************************************)
(* httpClient.ts                                                           *)
(***************************************************************************)
AppUrlMissing == "REMIX_APP_URL environment variable is not set"
SecretMissing == "HMAC_SECRET environment variable is not set"
FetchFailed == "fetch failed"
BodyNotJson == "Unexpected token < in JSON"

(* HMAC-SHA256 as an ideal MAC: equal exactly for equal (secret, payload) *)
signPayload(payload, secret) == [ hmac |-> << secret, payload >> ]

getConfig(e) ==
  IF ~TruthyStr(e.REMIX_APP_URL) THEN Throw(AppUrlMissing)
  ELSE IF ~TruthyStr(e.HMAC_SECRET) THEN Throw(SecretMissing)
  ELSE Return([ appUrl |-> Val(e.REMIX_APP_URL), hmacSecret |-> Val(e.HMAC_SECRET) ])

HttpStatusText(status) == "HTTP " \o ToString(status)
IsOk(status) == status >= 200 /\ status <= 299

(* A request whose signature is computed over another serialization than *)
(* the one transmitted                                                   *)
RequestSignedApart(kind, url, body, secret) ==
  [ kind |-> kind, url |-> url, body |-> body,
    signature |-> signPayload([ indented |-> body ], secret), resp |-> None ]

(* The request fetch() puts on the wire, and the outbound calls log entry *)
Request(kind, url, body, secret) ==
  [ kind |-> kind, url |-> url, body |-> body,
    signature |-> signPayload(body, secret), resp |-> None ]

(* Customer snapshots the lookup route can answer with *)
SpendValues == { 0, 49999, 50000, 52350 }

ApiCustomers ==
  { [ id |-> "gid://shopify/Customer/77", numberOfOrders |-> n, amountSpent |-> a,
      currency |-> "USD", firstName |-> None, lastName |-> None, email |-> None,
      createdAt |-> c ] :
      n \in 0 .. MaxOrders, a \in SpendValues, c \in { Some(0) } }
  \cup { [ id |-> "gid://shopify/Customer/77", numberOfOrders |-> 2, amountSpent |-> 0,
           currency |-> "USD", firstName |-> None, lastName |-> None, email |-> None,
           createdAt |-> None ] }

(* What fetch() to /api/customer-data can give: a network failure, or a   *)
(* response with a status and a body that is JSON (Some) or not (None).   *)
LookupResponses ==
  { [ net |-> "error", msg |-> FetchFailed ],
    [ net |-> "ok", status |-> 502, json |-> None ],
    [ net |-> "ok", status |-> 404,
      json |-> Some([ success |-> FALSE, customer |-> None, error |-> Some("Customer not found") ]) ],
    [ net |-> "ok", status |-> 500,
      json |-> Some([ success |-> FALSE, customer |-> None, error |-> None ]) ],
    [ net |-> "ok", status |-> 200,
      json |-> Some([ success |-> FALSE, customer |-> None, error |-> Some("GraphQL error") ]) ],
    [ net |-> "ok", status |-> 200,
      json |-> Some([ success |-> TRUE, customer |-> None, error |-> None ]) ] }
  \cup { [ net |-> "ok", status |-> 200,
           json |-> Some([ success |-> TRUE, customer |-> Some(c), error |-> None ]) ] :
           c \in ApiCustomers }

(* fetchCustomerData from the await of fetch on (httpClient.ts:65-102) *)
fetchCustomerDataResult(response) ==
  IF response.net = "error"
  THEN [ success |-> FALSE, customer |-> None, error |-> Some(response.msg) ]
  ELSE IF ~IsSome(response.json)
  THEN [ success |-> FALSE, customer |-> None, error |-> Some(BodyNotJson) ]
  ELSE IF ~IsOk(response.status)
  THEN [ success |-> FALSE, customer |-> None,
         error |-> IF TruthyStr(Val(response.json).error)
                   THEN Val(response.json).error
                   ELSE Some(HttpStatusText(response.status)) ]
  ELSE Val(response.json)

(* What fetch() to /api/ai-insights/ingest can give *)
IngestResponses ==
  { [ net |-> "error", msg |-> FetchFailed ],
    [ net |-> "ok", status |-> 502, json |-> None ],
    [ net |-> "ok", status |-> 401, json |-> Some([ id |-> None, error |-> Some("Invalid signature") ]) ],
    [ net |-> "ok", status |-> 500, json |-> Some([ id |-> None, error |-> None ]) ],
    [ net |-> "ok", status |-> 200, json |-> Some([ id |-> Some("ins_1"), error |-> None ]) ] }

(* A delivery that takes every answer carrying JSON as a success *)
postInsightResultAnyStatus(response) ==
  IF response.net = "error"
  THEN [ success |-> FALSE, id |-> None, error |-> Some(response.msg) ]
  ELSE IF ~IsSome(response.json)
  THEN [ success |-> FALSE, id |-> None, error |-> Some(BodyNotJson) ]
  ELSE [ success |-> TRUE, id |-> Val(response.json).id, error |-> None ]

(* postInsightToApp from the await of fetch on (httpClient.ts:119-158) *)
postInsightResult(response) ==
  IF response.net = "error"
  THEN [ success |-> FALSE, id |-> None, error |-> Some(response.msg) ]
  ELSE IF ~IsSome(response.json)
  THEN [ success |-> FALSE, id |-> None, error |-> Some(BodyNotJson) ]
  ELSE IF ~IsOk(response.status)
  THEN [ success |-> FALSE, id |-> None,
         error |-> IF TruthyStr(Val(response.json).error)
                   THEN Val(response.json).error
                   ELSE Some(HttpStatusText(response.status)) ]
  ELSE [ success |-> TRUE, id |-> Val(response.json).id, error |-> None ]

(* JSON.stringify of an AIInsightPayload: a key whose value is undefined  *)
(* is dropped (only orderName can be), a NaN number is written as null    *)
(* (None on the wire).                                                    *)
JSONstringify(payload) ==
  LET keep == { k \in DOMAIN payload : k = "orderName" => IsSome(payload.orderName) }
  IN [ k \in keep |->
         IF k = "orderName" THEN Val(payload.orderName)
         ELSE IF k = "orderValue"
              THEN IF payload.orderValue = NaN THEN None ELSE Some(payload.orderValue)
         ELSE payload[k] ]

(* An error payload that reports a generic message instead of the failure's *)
postErrorPayloadGeneric(shop_, orderId_, orderName_, errorMessage_) ==
  [ shop |-> shop_, orderId |-> orderId_, orderName |-> orderName_,
    insightText |-> ErrorInsightText, status |-> "error", errorMessage |-> "" ]

(* The payload built by postErrorToApp (httpClient.ts:170-177) *)
postErrorPayload(shop_, orderId_, orderName_, errorMessage_) ==
  [ shop |-> shop_, orderId |-> orderId_, orderName |-> orderName_,
    insightText |-> ErrorInsightText, status |-> "error", errorMessage |-> errorMessage_ ]

(***************************************************************************)
(* app/routes/api.ai-insights.ingest.tsx: the ingestion endpoint, and the  *)
(* AIOrderInsight table it writes.                                         *)
(*                                                                         *)
(* A request body is the raw text: JSON (an object of tagged values, or    *)
(* the literal null) or not.  A stored row holds plain values, None for a  *)
(* NULL column.                                                            *)
(***************************************************************************)
MaxWrites == 3
Slots == { 1, 2 }

(* A JSON number (a JSON string is JStr) *)
JNumber(n) == [ type |-> "number", n |-> n ]

MethodNotAllowed == "Method not allowed"
MissingSignature == "Missing signature"
ServerConfigError == "Server configuration error"
InvalidSignature == "Invalid signature"
InvalidJsonBody == "Invalid JSON body"
InvalidField(f) == "Missing or invalid '" \o f \o "' field"
InvalidStatus == "Invalid 'status' field. Must be one of: pending, completed, error"
InvalidCustomerType == "Invalid 'customerType' field. Must be one of: first-time, repeat, vip"
SaveFailed == "Failed to save insight"
SavedMessage == "Insight saved successfully"
UnexpectedServerError == "Unexpected Server Error"

validStatuses == { "pending", "completed", "error" }
validCustomerTypes == { "first-time", "repeat", "vip" }

(* process.env of the app server *)
AppEnvs == [ HMAC_SECRET : { None, Some("s3cret"), Some("wr0ng") } ]

(* Payload objects a client can send *)
InsightA ==
  [ shop |-> JStr("shop-a.myshopify.com"), orderId |-> JStr("1001"), orderName |-> JStr("#1001"),
    insightText |-> JStr("Welcome them"), followupSubject |-> JStr("Thanks"),
    followupBody |-> JStr("Hi"), customerType |-> JStr("first-time"),
    orderValue |-> JNumber(8500), status |-> JStr("completed") ]

InsightB ==
  [ shop |-> JStr("shop-a.myshopify.com"), orderId |-> JStr("1001"), orderName |-> JStr("#1001-R"),
    insightText |-> JStr("Offer a bundle"), followupSubject |-> JStr("Back again"),
    customerType |-> JStr("vip"), orderValue |-> JNumber(12000) ]

ErrorE ==
  [ shop |-> JStr("shop-a.myshopify.com"), orderId |-> JStr("1001"), orderName |-> JStr("#1001"),
    insightText |-> JStr(ErrorInsightText), status |-> JStr("error"),
    errorMessage |-> JStr(EmptyResponse) ]

InsightC ==
  [ shop |-> JStr("shop-b.myshopify.com"), orderId |-> JStr("1001"), orderName |-> JStr("#1001"),
    insightText |-> JStr("Welcome them"), status |-> JStr("pending") ]

(* Another order of the first shop, free of charge *)
InsightD ==
  [ shop |-> JStr("shop-a.myshopify.com"), orderId |-> JStr("1002"), orderName |-> JStr("#1002"),
    insightText |-> JStr("Send a sample"), customerType |-> JStr("repeat"),
    orderValue |-> JNumber(0), status |-> JStr("completed") ]

(* An error payload that carries no error detail *)
ErrorBare ==
  [ shop |-> JStr("shop-a.myshopify.com"), orderId |-> JStr("1001"), orderName |-> JStr("#1001"),
    insightText |-> JStr(ErrorInsightText), status |-> JStr("error") ]

Without(obj, f) == [ k \in DOMAIN obj \ { f } |-> obj[k] ]

ValidObjects == { InsightA, InsightB, ErrorE, InsightC, InsightD, ErrorBare }

InvalidObjects ==
  { Without(InsightA, "shop"),
    [ InsightA EXCEPT !.orderId = JNumber(1001) ],
    Without(InsightA, "orderName"),
    Without(InsightA, "insightText"),
    [ InsightA EXCEPT !.status = JStr("archived") ],
    [ InsightA EXCEPT !.status = JStr("") ],
    [ InsightA EXCEPT !.customerType = JStr("gold") ],
    [ InsightA EXCEPT !.customerType = JStr("") ] }

JsonBody(obj) == [ text |-> "json", obj |-> obj ]

IngestBodies ==
  { [ text |-> "not-json" ], [ text |-> "null" ] }
  \cup { JsonBody(o) : o \in ValidObjects \cup InvalidObjects }

(* Requests on the wire: every body signed by a client that holds         *)
(* "s3cret"; one body unsigned, signed with another secret, sent with the *)
(* signature of another body, and sent with another method.               *)
IngestRequests ==
  { [ method |-> "POST", hmac |-> Some(signPayload(b, "s3cret")), body |-> b ] : b \in IngestBodies }
  \cup { [ method |-> "POST", hmac |-> None, body |-> b ] :
           b \in { JsonBody(InsightA), [ text |-> "not-json" ] } }
  \cup { [ method |-> "POST", hmac |-> Some(signPayload(b, "wr0ng")), body |-> b ] :
           b \in { JsonBody(InsightA), [ text |-> "not-json" ] } }
  \cup { [ method |-> "POST", hmac |-> Some(signPayload(JsonBody(InsightB), "s3cret")),
           body |-> JsonBody(InsightA) ],
         [ method |-> "PUT", hmac |-> Some(signPayload(JsonBody(InsightA), "s3cret")),
           body |-> JsonBody(InsightA) ] }

(* json(body, { status }) *)
json(status, body) == [ status |-> status, body |-> body ]

(* crypto.createHmac("sha256", hmacSecret).update(body).digest("hex") *)
expectedHmac(body, hmacSecret) == [ hmac |-> << hmacSecret, body >> ]

(* A comparison that lets every signature through *)
signatureMismatchNever(hmacHeader, expected) == FALSE

(* hmacHeader !== expectedHmac *)
signatureMismatch(hmacHeader, expected) == hmacHeader # expected

(* A check that verifies a signature only when one is sent *)
verifySignatureIfPresent(req, e) ==
  IF ~IsSome(req.hmac) THEN None
  ELSE IF ~TruthyStr(e.HMAC_SECRET) THEN Some(json(500, [ error |-> ServerConfigError ]))
  ELSE IF signatureMismatch(Val(req.hmac), expectedHmac(req.body, Val(e.HMAC_SECRET)))
  THEN Some(json(401, [ error |-> InvalidSignature ]))
  ELSE None

(* ingest.tsx:36-57: the rejection, if any, of the signature check *)
verifySignature(req, e) ==
  IF ~IsSome(req.hmac) THEN Some(json(401, [ error |-> MissingSignature ]))
  ELSE IF ~TruthyStr(e.HMAC_SECRET) THEN Some(json(500, [ error |-> ServerConfigError ]))
  ELSE IF signatureMismatch(Val(req.hmac), expectedHmac(req.body, Val(e.HMAC_SECRET)))
  THEN Some(json(401, [ error |-> InvalidSignature ]))
  ELSE None

(* JSON.parse(body): an object, null (None), or a SyntaxError *)
parseBody(body) ==
  CASE body.text = "json" -> Return(Some(body.obj))
    [] body.text = "null" -> Return(None)
    [] OTHER -> ThrowC("SyntaxError", "Unexpected token")

(* JavaScript truthiness of data[f] *)
Truthy(data, f) ==
  /\ f \in DOMAIN data
  /\ CASE data[f].type = "string" -> data[f].v # ""
       [] data[f].type = "number" -> data[f].n # 0
       [] OTHER -> FALSE

(* !x || typeof x !== "string" *)
requiredInvalid(data, f) == ~Truthy(data, f) \/ data[f].type # "string"

(* data.status || "completed" *)
statusOf(data) == IF Truthy(data, "status") THEN data.status ELSE JStr("completed")

(* data.f || null *)
orNull(data, f) ==
  IF Truthy(data, f)
  THEN Some(IF data[f].type = "number" THEN data[f].n ELSE data[f].v)
  ELSE None

(* ingest.tsx:69-113: the rejection, if any, of the field validation *)
validate(data) ==
  IF requiredInvalid(data, "shop") THEN Some(json(400, [ error |-> InvalidField("shop") ]))
  ELSE IF requiredInvalid(data, "orderId") THEN Some(json(400, [ error |-> InvalidField("orderId") ]))
  ELSE IF requiredInvalid(data, "orderName")
  THEN Some(json(400, [ error |-> InvalidField("orderName") ]))
  ELSE IF requiredInvalid(data, "insightText")
  THEN Some(json(400, [ error |-> InvalidField("insightText") ]))
  ELSE IF ~(statusOf(data).type = "string" /\ statusOf(data).v \in validStatuses)
  THEN Some(json(400, [ error |-> InvalidStatus ]))
  ELSE IF Truthy(data, "customerType")
          /\ ~(data.customerType.type = "string" /\ data.customerType.v \in validCustomerTypes)
  THEN Some(json(400, [ error |-> InvalidCustomerType ]))
  ELSE None

(* An action that parses and validates the body before it checks the    *)
(* signature                                                             *)
rejectParseFirst(req, e) ==
  LET sig == verifySignature(req, e)
      parsed == parseBody(req.body)
  IN IF req.method # "POST" THEN Some(json(405, [ error |-> MethodNotAllowed ]))
     ELSE IF parsed.threw THEN Some(json(400, [ error |-> InvalidJsonBody ]))
     ELSE IF ~IsSome(parsed.val) THEN Some(json(500, [ error |-> UnexpectedServerError ]))
     ELSE IF IsSome(validate(Val(parsed.val))) THEN validate(Val(parsed.val))
     ELSE sig

(* ingest.tsx:27-113: the action up to the await of the upsert.  The      *)
(* destructuring of a null body throws outside every try block, which the *)
(* framework answers with 500.                                            *)
reject(req, e) ==
  LET sig == verifySignature(req, e)
      parsed == parseBody(req.body)
  IN IF req.method # "POST" THEN Some(json(405, [ error |-> MethodNotAllowed ]))
     ELSE IF IsSome(sig) THEN sig
     ELSE IF parsed.threw THEN Some(json(400, [ error |-> InvalidJsonBody ]))
     ELSE IF ~IsSome(parsed.val) THEN Some(json(500, [ error |-> UnexpectedServerError ]))
     ELSE validate(Val(parsed.val))

DataOf(req) == req.body.obj

(* The mutable columns an upsert writes (ingest.tsx:124-133) *)
updateData(data, at) ==
  [ orderName |-> data.orderName.v,
    insightText |-> data.insightText.v,
    followupSubject |-> orNull(data, "followupSubject"),
    followupBody |-> orNull(data, "followupBody"),
    customerType |-> orNull(data, "customerType"),
    orderValue |-> orNull(data, "orderValue"),
    status |-> statusOf(data).v,
    errorMessage |-> orNull(data, "errorMessage"),
    updatedAt |-> at ]

(* An update that keeps the stored value of a column the payload lacks *)
updateRowMerging(row, data, at) ==
  LET u == updateData(data, at)
  IN [ k \in DOMAIN row |->
         IF k \in { "followupSubject", "followupBody", "customerType", "orderValue",
                    "errorMessage" }
         THEN IF u[k] # None THEN u[k] ELSE row[k]
         ELSE IF k \in DOMAIN u THEN u[k] ELSE row[k] ]

(* An update that leaves a completed record alone when an error arrives *)
updateRowKeepingCompleted(row, data, at) ==
  LET u == updateData(data, at)
  IN IF row.status = "completed" /\ u.status = "error" THEN row
     ELSE [ k \in DOMAIN row |-> IF k \in DOMAIN u THEN u[k] ELSE row[k] ]

(* The row after the update branch of the upsert *)
updateRow(row, data, at) ==
  LET u == updateData(data, at)
  IN [ k \in DOMAIN row |-> IF k \in DOMAIN u THEN u[k] ELSE row[k] ]

(* The row the create branch inserts (ingest.tsx:135-146); id, createdAt  *)
(* and updatedAt are column defaults                                       *)
createRow(id, data, at) ==
  [ id |-> id, shop |-> data.shop.v, orderId |-> data.orderId.v, createdAt |-> at ]
  @@ updateData(data, at)

(* A lookup of the row by its order id alone *)
findUniqueByOrderId(rows, shop_, orderId_) ==
  IF \E i \in DOMAIN rows : rows[i].orderId = orderId_
  THEN Some(CHOOSE i \in DOMAIN rows : rows[i].orderId = orderId_)
  ELSE None

(* The position of the row of (shop, orderId), if there is one *)
findUnique(rows, shop_, orderId_) ==
  IF \E i \in DOMAIN rows : rows[i].shop = shop_ /\ rows[i].orderId = orderId_
  THEN Some(CHOOSE i \in DOMAIN rows : rows[i].shop = shop_ /\ rows[i].orderId = orderId_)
  ELSE None

(* An index on (shop, orderId) that is not unique *)
uniqueViolationNever(rows, shop_, orderId_) == FALSE

(* migration.sql:25: the unique index rejects a second row of a pair *)
uniqueViolation(rows, shop_, orderId_) == IsSome(findUnique(rows, shop_, orderId_))

VARIABLES appEnv, store, slot, clock

ingestVars == << appEnv, store, slot, clock >>

FreeSlot == [ pc |-> "free", req |-> None, found |-> None, resp |-> None ]

(***************************************************************************)
(* lambda/src/index.ts: the handler.                                       *)
(*                                                                         *)
(* State.  env and openaiClient outlive an invocation (process.env and the *)
(* module-level client of aiService.ts).  The other variables belong to    *)
(* the invocation in progress: pc is the await the handler is suspended    *)
(* at, calls the requests it has issued so far (with the answer each got), *)
(* result what it returned.                                                *)
(***************************************************************************)
VARIABLES env, openaiClient, pc, event, shop, orderId, orderName,
          orderData, customerData, errorMessage, calls, result

handlerVars == << env, openaiClient, pc, event, shop, orderId, orderName,
                  orderData, customerData, errorMessage, calls, result >>

vars == << handlerVars, ingestVars >>

Reply(status, body) == Some([ statusCode |-> status, body |-> body ])

IgnoredBody == [ message |-> "Event ignored - not from Shopify" ]
MissingOrderBody == [ error |-> "Missing order payload" ]
MissingShopBody == [ error |-> "Missing shop domain" ]

(* A source check that accepts every event that declares a source *)
includesShopifyAnySource(source) == IsSome(source)

(* event.source?.includes("shopify.com") *)
includesShopify(source) ==
  IsSome(source) /\ \E i \in DOMAIN Val(source) : Val(source)[i] = ShopifyNamespace

EventOrder(e) == IF IsSome(e.detail) THEN Val(e.detail).payload ELSE None
EventMetadata(e) == IF IsSome(e.detail) THEN Val(e.detail).metadata ELSE None

(* !order || !order.id *)
missingOrder(order) == ~IsSome(order) \/ ~TruthyNum(Val(order).id)

(* The frame of an invocation that has just been entered *)
Frame(e) ==
  [ openaiClient |-> openaiClient, pc |-> "start", event |-> Some(e),
    shop |-> None, orderId |-> None, orderName |-> None, orderData |-> None,
    customerData |-> None, errorMessage |-> None, calls |-> << >>, result |-> None ]

ReturnWith(f, r) == [ f EXCEPT !.pc = "done", !.result = r ]

(* A catch block that reports the failure of the error delivery instead   *)
catchResultOfDelivery(message, postOutcome) ==
  IF "threw" \in DOMAIN postOutcome
  THEN Reply(500, [ error |-> postOutcome.msg ])
  ELSE IF ~postOutcome.success
  THEN Reply(500, [ error |-> Val(postOutcome.error) ])
  ELSE Reply(500, [ error |-> message ])

(* The body of the result the catch block returns (index.ts:176-179); the *)
(* outcome of postErrorToApp is not consulted.                            *)
catchResult(message, postOutcome) == Reply(500, [ error |-> message ])

(* index.ts:164-174: the catch block up to the await of postErrorToApp.   *)
(* getConfig may throw inside postInsightToApp, which the inner catch     *)
(* swallows.                                                              *)
catchBlock(f, message) ==
  LET cfg == getConfig(env)
      g == [ f EXCEPT !.errorMessage = Some(message) ]
  IN IF cfg.threw THEN ReturnWith(g, catchResult(message, cfg))
     ELSE [ g EXCEPT !.pc = "postError",
                     !.calls = Append(@, Request("ingest", cfg.val.appUrl,
                                 JSONstringify(postErrorPayload(Val(f.shop), Val(f.orderId),
                                                                f.orderName, message)),
                                 cfg.val.hmacSecret)) ]

(* A payload that labels every customer first-time *)
insightPayloadFirstTime(f, aiResponse) ==
  [ shop |-> Val(f.shop), orderId |-> Val(f.orderId), orderName |-> f.orderName,
    insightText |-> aiResponse.insight.v,
    followupSubject |-> aiResponse.followupSubject.v,
    followupBody |-> aiResponse.followupBody.v,
    customerType |-> "first-time",
    orderValue |-> Val(f.orderData).totalPrice,
    status |-> "completed" ]

(* index.ts:126-141: build the payload and call postInsightToApp *)
insightPayload(f, aiResponse) ==
  [ shop |-> Val(f.shop), orderId |-> Val(f.orderId), orderName |-> f.orderName,
    insightText |-> aiResponse.insight.v,
    followupSubject |-> aiResponse.followupSubject.v,
    followupBody |-> aiResponse.followupBody.v,
    customerType |-> Val(f.customerData).customerType,
    orderValue |-> Val(f.orderData).totalPrice,
    status |-> "completed" ]

startDelivery(f, aiResponse) ==
  LET cfg == getConfig(env)
  IN IF cfg.threw THEN catchBlock(f, cfg.msg)
     ELSE [ f EXCEPT !.pc = "postInsight",
                     !.calls = Append(@, Request("ingest", cfg.val.appUrl,
                                 JSONstringify(insightPayload(f, aiResponse)),
                                 cfg.val.hmacSecret)) ]

(* index.ts:113-124: build the prompt and call generateInsight *)
startGenerate(f, cd) ==
  LET g == [ f EXCEPT !.customerData = Some(cd) ]
      prompt == buildPrompt(Val(f.orderData), cd, env.INCLUDE_CUSTOMER_NAME = Some("true"))
      client == getOpenAIClient(f.openaiClient, env)
  IN IF client.threw THEN catchBlock(g, client.msg)
     ELSE [ g EXCEPT !.pc = "generate",
                     !.openaiClient = client.val,
                     !.calls = Append(@, [ kind |-> "ai", url |-> "openai", body |-> prompt,
                                           signature |-> None, resp |-> None ]) ]

(* index.ts:86-111: the try block up to the first await *)
startPipeline(f, order) ==
  LET od == processOrderData(order)
      customerId == IF IsSome(order.customer) THEN Val(order.customer).id ELSE None
      g == [ f EXCEPT !.orderData = Some(od.val) ]
      cfg == getConfig(env)
  IN IF od.threw THEN catchBlock(f, od.msg)
     ELSE IF TruthyNum(customerId)
     THEN IF cfg.threw THEN catchBlock(g, cfg.msg)
          ELSE [ g EXCEPT !.pc = "lookup",
                          !.calls = Append(@, Request("lookup", cfg.val.appUrl,
                                      [ shop |-> Val(f.shop),
                                        customerId |-> ToString(Val(customerId)) ],
                                      cfg.val.hmacSecret)) ]
     ELSE startGenerate(g, processCustomerDataFallback(None, None, 0))

(* index.ts:37-84: the boundary checks *)
enter(e) ==
  LET f == Frame(e)
      order == EventOrder(e)
      sd == extractShopDomain(EventMetadata(e), env)
  IN IF ~includesShopify(e.source) THEN ReturnWith(f, Reply(200, IgnoredBody))
     ELSE IF missingOrder(order) THEN ReturnWith(f, Reply(400, MissingOrderBody))
     ELSE IF sd.threw THEN ReturnWith(f, Reply(400, MissingShopBody))
     ELSE startPipeline([ f EXCEPT !.shop = Some(sd.val),
                                   !.orderId = Some(ToString(Val(Val(order).id))),
                                   !.orderName = Val(order).name ],
                        Val(order))

Current ==
  [ openaiClient |-> openaiClient, pc |-> pc, event |-> event,
    shop |-> shop, orderId |-> orderId, orderName |-> orderName, orderData |-> orderData,
    customerData |-> customerData, errorMessage |-> errorMessage, calls |-> calls,
    result |-> result ]

(* The last request issued gets its answer *)
Answered(f, response) ==
  [ f EXCEPT !.calls = [ @ EXCEPT ![Len(@)].resp = Some(response) ] ]

Become(f) ==
  /\ openaiClient' = f.openaiClient
  /\ pc' = f.pc
  /\ event' = f.event
  /\ shop' = f.shop
  /\ orderId' = f.orderId
  /\ orderName' = f.orderName
  /\ orderData' = f.orderData
  /\ customerData' = f.customerData
  /\ errorMessage' = f.errorMessage
  /\ calls' = f.calls
  /\ result' = f.result
  /\ UNCHANGED << env, ingestVars >>

(* No invocation in progress *)
HandlerIdle ==
  /\ openaiClient = None
  /\ pc = "idle"
  /\ event = None
  /\ shop = None
  /\ orderId = None
  /\ orderName = None
  /\ orderData = None
  /\ customerData = None
  /\ errorMessage = None
  /\ calls = << >>
  /\ result = None

(* An empty table and no request in progress *)
IngestIdle ==
  /\ store = << >>
  /\ slot = [ p \in Slots |-> FreeSlot ]
  /\ clock = 0

Init ==
  /\ env \in Envs
  /\ HandlerIdle
  /\ appEnv = [ HMAC_SECRET |-> Some("s3cret") ]
  /\ IngestIdle

(* The platform invokes the handler with an event *)
Invoke ==
  /\ pc = "idle"
  /\ \E e \in Events : Become(enter(e))

(* The platform takes the returned result; the invocation's frame is gone *)
Complete ==
  /\ pc = "done"
  /\ Become([ Frame(None) EXCEPT !.pc = "idle", !.event = None ])

(* A test that takes every answer marked successful as a snapshot *)
lookupUsableSuccessOnly(customerResponse) == customerResponse.success

(* customerResponse.success && customerResponse.customer (index.ts:98) *)
lookupUsable(customerResponse) ==
  customerResponse.success /\ IsSome(customerResponse.customer)

(* A handler that repeats a lookup that failed, once *)
LookupReturnsRetrying ==
  /\ pc = "lookup"
  /\ \E response \in LookupResponses, now \in Nows :
       LET f == Answered(Current, response)
           customerResponse == fetchCustomerDataResult(response)
           order == Val(EventOrder(Val(event)))
       IN Become(
            IF lookupUsable(customerResponse)
            THEN startGenerate(f, processCustomerDataFromAPI(customerResponse.customer, now))
            ELSE IF Len(f.calls) < 2
            THEN [ f EXCEPT !.calls = Append(@, [ f.calls[1] EXCEPT !.resp = None ]) ]
            ELSE startGenerate(f, processCustomerDataFallback(order.customer, order.created_at, now)))

(* index.ts:96-107: fetchCustomerData resolves *)
LookupReturns ==
  /\ pc = "lookup"
  /\ \E response \in LookupResponses, now \in Nows :
       LET f == Answered(Current, response)
           customerResponse == fetchCustomerDataResult(response)
           order == Val(EventOrder(Val(event)))
       IN Become(
            IF lookupUsable(customerResponse)
            THEN startGenerate(f, processCustomerDataFromAPI(customerResponse.customer, now))
            ELSE startGenerate(f, processCustomerDataFallback(order.customer, order.created_at, now)))

(* index.ts:124-141: generateInsight resolves or rejects *)
GenerateReturns ==
  /\ pc = "generate"
  /\ \E response \in AIResponses :
       LET f == Answered(Current, response)
           aiResponse == generateInsightResult(response)
       IN Become(IF aiResponse.threw THEN catchBlock(f, aiResponse.msg)
                 ELSE startDelivery(f, aiResponse.val))

SuccessBody(f, id) ==
  [ success |-> TRUE, orderId |-> Val(f.orderId), orderName |-> f.orderName, insightId |-> id ]

(* A handler that also reports a failed delivery through the catch block *)
handleInsightResultReporting(f, r) ==
  IF ~r.success THEN catchBlock(f, Val(r.error))
  ELSE ReturnWith(f, Reply(200, SuccessBody(f, r.id)))

(* index.ts:141-163: postInsightToApp resolves *)
handleInsightResult(f, r) ==
  IF ~r.success THEN ReturnWith(f, Reply(500, [ error |-> r.error ]))
  ELSE ReturnWith(f, Reply(200, SuccessBody(f, r.id)))

PostInsightReturns ==
  /\ pc = "postInsight"
  /\ \E response \in IngestResponses :
       Become(handleInsightResult(Answered(Current, response), postInsightResult(response)))

(* index.ts:171-179: postErrorToApp resolves; its outcome is dropped *)
PostErrorReturns ==
  /\ pc = "postError"
  /\ \E response \in IngestResponses :
       LET f == Answered(Current, response)
       IN Become(ReturnWith(f, catchResult(Val(f.errorMessage), postInsightResult(response))))

Next ==
  \/ Invoke
  \/ LookupReturns
  \/ GenerateReturns
  \/ PostInsightReturns
  \/ PostErrorReturns
  \/ Complete

Spec == Init /\ [][Next]_vars

(***************************************************************************)
(* The ingestion endpoint as a server: each slot is a request in progress. *)
(* The upsert is a lookup of the row of (shop, orderId) followed by an     *)
(* update or an insert; requests interleave between the two.               *)
(***************************************************************************)
SlotKey(p) == << DataOf(Val(slot[p].req)).shop.v, DataOf(Val(slot[p].req)).orderId.v >>

(* ingest.tsx:27-117: a request arrives and is rejected or reaches the upsert *)
IngestReceive(p) ==
  /\ slot[p].pc \in { "free", "done" }
  /\ clock + Cardinality({ q \in Slots : slot[q].pc \in { "find", "write" } }) < MaxWrites
  /\ \E req \in IngestRequests :
       LET r == reject(req, appEnv)
       IN slot' = [ slot EXCEPT ![p] =
                      IF IsSome(r)
                      THEN [ pc |-> "done", req |-> Some(req), found |-> None, resp |-> r ]
                      ELSE [ pc |-> "find", req |-> Some(req), found |-> None, resp |-> None ] ]
  /\ UNCHANGED << appEnv, store, clock, handlerVars >>

(* prisma.aIOrderInsight.upsert, where: shop_orderId *)
UpsertFind(p) ==
  /\ slot[p].pc = "find"
  /\ slot' = [ slot EXCEPT ![p].pc = "write",
                           ![p].found = findUnique(store, SlotKey(p)[1], SlotKey(p)[2]) ]
  /\ UNCHANGED << appEnv, store, clock, handlerVars >>

(* ingest.tsx:117-158: the update or the create, and the answer *)
UpsertWrite(p) ==
  /\ slot[p].pc = "write"
  /\ LET data == DataOf(Val(slot[p].req))
         saved(id) == Some(json(200, [ success |-> TRUE, id |-> id, message |-> SavedMessage ]))
     IN IF IsSome(slot[p].found)
        THEN /\ store' = [ store EXCEPT ![Val(slot[p].found)] = updateRow(@, data, clock + 1) ]
             /\ slot' = [ slot EXCEPT ![p].pc = "done",
                                      ![p].resp = saved(store[Val(slot[p].found)].id) ]
        ELSE IF uniqueViolation(store, SlotKey(p)[1], SlotKey(p)[2])
        THEN /\ store' = store
             /\ slot' = [ slot EXCEPT ![p].pc = "done",
                                      ![p].resp = Some(json(500, [ error |-> SaveFailed ])) ]
        ELSE /\ store' = Append(store, createRow("ins_" \o ToString(Len(store) + 1), data, clock + 1))
             /\ slot' = [ slot EXCEPT ![p].pc = "done",
                                      ![p].resp = saved("ins_" \o ToString(Len(store) + 1)) ]
  /\ clock' = clock + 1
  /\ UNCHANGED << appEnv, handlerVars >>

InitIngest ==
  /\ env = [ REMIX_APP_URL |-> Some("https://app.example"), HMAC_SECRET |-> Some("s3cret"),
             SHOPIFY_SHOP_DOMAIN |-> None, OPENAI_API_KEY |-> Some("sk-key"),
             INCLUDE_CUSTOMER_NAME |-> None ]
  /\ HandlerIdle
  /\ appEnv \in AppEnvs
  /\ IngestIdle

NextIngest ==
  \/ \E p \in Slots : IngestReceive(p)
  \/ \E p \in Slots : UpsertFind(p)
  \/ \E p \in Slots : UpsertWrite(p)

SpecIngest == InitIngest /\ [][NextIngest]_vars

TypeOK ==
  /\ env \in Envs
  /\ pc \in { "idle", "lookup", "generate", "postInsight", "postError", "done" }
  /\ Len(calls) <= 3

(***************************************************************************)
(* Properties.  The vocabulary below is that of the inbound event and of   *)
(* the requests on the wire, not of the handler's own checks.              *)
(***************************************************************************)
Range(seq) == { seq[i] : i \in DOMAIN seq }

CallsOf(kind) == SelectSeq(calls, LAMBDA c : c.kind = kind)
IngestCalls == CallsOf("ingest")

Running == IsSome(event)
TheEvent == Val(event)

(* The declared origin contains the partner namespace string *)
FromPartner(e) == IsSome(e.source) /\ ShopifyNamespace \in Range(Val(e.source))

(* The payload carries an order that has an identifier *)
HasOrderId(e) ==
  /\ IsSome(e.detail)
  /\ IsSome(Val(e.detail).payload)
  /\ IsSome(Val(Val(e.detail).payload).id)

(* The shop domain of the envelope metadata, if any *)
HeaderShop(e) ==
  IF /\ IsSome(e.detail)
     /\ IsSome(Val(e.detail).metadata)
     /\ "ShopDomain" \in DOMAIN Val(Val(e.detail).metadata)
     /\ Val(Val(e.detail).metadata).ShopDomain # ""
  THEN Some(Val(Val(e.detail).metadata).ShopDomain)
  ELSE None

ShopKnown(e) == IsSome(HeaderShop(e)) \/ IsSome(env.SHOPIFY_SHOP_DOMAIN)

(* C1: an event whose source does not contain "shopify.com" is answered    *)
(* with status 200 and the ignored marker, and the handler issues no       *)
(* outbound call for it (no lookup, no AI call, no POST to the ingestion   *)
(* route).                                                                 *)
C1_ForeignSourceIgnored ==
  (Running /\ ~FromPartner(TheEvent)) =>
    /\ pc = "done"
    /\ result = Some([ statusCode |-> 200, body |-> IgnoredBody ])
    /\ calls = << >>

(* A foreign event that carries a complete order has been handled *)
C1_Witness ==
  /\ Running
  /\ TheEvent.source = Some(<< "some.other.partner" >>)
  /\ HasOrderId(TheEvent)
  /\ IsSome(HeaderShop(TheEvent))
  /\ pc = "done"
  /\ Val(result).statusCode = 200

(* C2: a partner event without an order or order identifier, or whose     *)
(* shop domain is in neither the metadata nor the configured fallback, is  *)
(* answered with status 400 and no outbound call is issued.                *)
C2_BoundaryReject ==
  (Running /\ FromPartner(TheEvent) /\ (~HasOrderId(TheEvent) \/ ~ShopKnown(TheEvent))) =>
    /\ pc = "done"
    /\ Val(result).statusCode = 400
    /\ calls = << >>

(* A partner event with an order identifier but no shop domain anywhere   *)
(* has been handled                                                       *)
C2_Witness ==
  /\ Running
  /\ FromPartner(TheEvent)
  /\ HasOrderId(TheEvent)
  /\ Val(Val(TheEvent.detail).payload).id = Some(1001)
  /\ ~ShopKnown(TheEvent)
  /\ pc = "done"
  /\ result = Some([ statusCode |-> 400, body |-> MissingShopBody ])

(* The answers of the request log *)
Answer(c) == Val(c.resp)
IsAnswered(c) == IsSome(c.resp)

HttpFailed(response) ==
  \/ response.net = "error"
  \/ response.net = "ok" /\ (response.status < 200 \/ response.status > 299)

ConfigSet == IsSome(env.REMIX_APP_URL) /\ IsSome(env.HMAC_SECRET)

PassedBoundary ==
  /\ Running
  /\ FromPartner(TheEvent)
  /\ HasOrderId(TheEvent)
  /\ Val(Val(TheEvent.detail).payload).id # Some(0)
  /\ ShopKnown(TheEvent)

TheOrder == Val(Val(TheEvent.detail).payload)
TheShop == IF IsSome(HeaderShop(TheEvent)) THEN Val(HeaderShop(TheEvent))
           ELSE Val(env.SHOPIFY_SHOP_DOMAIN)

(* The provider's answer is one the Insight Generator fails on: no        *)
(* content, content that is not JSON, or a required field that is missing *)
(* or not a (non-empty) string.                                           *)
FailsGeneration(response) ==
  /\ response.kind = "resolved"
  /\ \/ ~IsSome(response.content)
     \/ Val(response.content).text \in { "empty", "not-json" }
     \/ /\ Val(response.content).text = "json"
        /\ \E k \in { "insight", "followupSubject", "followupBody" } :
             \/ k \notin DOMAIN Val(response.content).obj
             \/ Val(response.content).obj[k].type # "string"
             \/ Val(response.content).obj[k].v = ""

FailureMessages ==
  { EmptyResponse, MalformedResponse, MissingInsight, MissingSubject, MissingBody }

GenerationFailed ==
  /\ CallsOf("ai") # << >>
  /\ IsAnswered(CallsOf("ai")[1])
  /\ FailsGeneration(Answer(CallsOf("ai")[1]))

ErrorDelivered(message) ==
  /\ Len(IngestCalls) = 1
  /\ IngestCalls[1].body.shop = TheShop
  /\ IngestCalls[1].body.orderId = ToString(Val(TheOrder.id))
  /\ IngestCalls[1].body.status = "error"
  /\ IngestCalls[1].body.errorMessage = message
  /\ message # ""

C3_Consequent ==
  /\ pc \in { "postError", "done" }
  /\ IsSome(errorMessage)
  /\ Val(errorMessage) \in FailureMessages
  /\ ErrorDelivered(Val(errorMessage))
  /\ pc = "done" => Val(result).statusCode = 500

(* C3 as stated: whenever the Insight Generator fails in an invocation    *)
(* that passed the boundary checks, one error payload for the same shop    *)
(* and orderId, carrying the failure's message, is sent to the ingestion   *)
(* route and the handler returns 500.                                      *)
C3_Original == (PassedBoundary /\ GenerationFailed) => C3_Consequent

(* C3 (amended): the same, for an invocation that runs with the app URL    *)
(* and the signing secret configured.                                      *)
C3_GenerationFailureDelivered ==
  (PassedBoundary /\ GenerationFailed /\ ConfigSet) => C3_Consequent

(* The provider answered with text that is not JSON, the error record was *)
(* sent and the handler has returned                                      *)
C3_Witness ==
  /\ PassedBoundary /\ ConfigSet
  /\ GenerationFailed
  /\ Answer(CallsOf("ai")[1]).content = Some([ text |-> "not-json" ])
  /\ pc = "done"
  /\ ErrorDelivered(MalformedResponse)

(* The insight delivery (the POST of the completed record) has failed *)
InsightDeliveryFailed ==
  /\ IngestCalls # << >>
  /\ IngestCalls[1].body.status = "completed"
  /\ IsAnswered(IngestCalls[1])
  /\ HttpFailed(Answer(IngestCalls[1]))

(* C4: when the insight delivery fails, the handler returns a failure     *)
(* result and has made a second attempt, delivering an error-status       *)
(* record for the same (shop, orderId).                                   *)
C4_SecondaryAttempt ==
  (pc = "done" /\ InsightDeliveryFailed) =>
    /\ Val(result).statusCode = 500
    /\ Len(IngestCalls) = 2
    /\ IngestCalls[2].body.status = "error"
    /\ IngestCalls[2].body.shop = IngestCalls[1].body.shop
    /\ IngestCalls[2].body.orderId = IngestCalls[1].body.orderId

SentVariants == { IngestCalls[i].body.status : i \in DOMAIN IngestCalls }

(* C5 as stated: a finished invocation that passed the boundary checks    *)
(* has sent exactly one payload, a rejected one none, and none has sent   *)
(* both variants.                                                         *)
C5_Original ==
  /\ (pc = "done" /\ PassedBoundary) => Len(IngestCalls) = 1
  /\ (Running /\ ~PassedBoundary) => Len(IngestCalls) = 0
  /\ SentVariants # { "completed", "error" }

(* C5 (amended): a finished invocation that passed the boundary checks    *)
(* has sent at most one payload, and exactly one when the app URL and the *)
(* signing secret are configured; a rejected one has sent none; none      *)
(* sends both variants.                                                   *)
C5_OnePayload ==
  /\ Len(IngestCalls) <= 1
  /\ (pc = "done" /\ PassedBoundary /\ ConfigSet) => Len(IngestCalls) = 1
  /\ (Running /\ ~PassedBoundary) => Len(IngestCalls) = 0
  /\ SentVariants # { "completed", "error" }

(* An invocation whose insight delivery failed has returned having sent   *)
(* the single completed payload                                           *)
C5_Witness ==
  /\ pc = "done" /\ PassedBoundary /\ ConfigSet
  /\ InsightDeliveryFailed
  /\ Len(IngestCalls) = 1

(* The error delivery was attempted and failed, or threw before a request *)
(* was made                                                               *)
ErrorDeliveryFailed ==
  /\ IsSome(errorMessage)
  /\ \/ ~ConfigSet
     \/ /\ IngestCalls # << >>
        /\ IngestCalls[Len(IngestCalls)].body.status = "error"
        /\ IsAnswered(IngestCalls[Len(IngestCalls)])
        /\ HttpFailed(Answer(IngestCalls[Len(IngestCalls)]))

ConfigMessage == IF ~IsSome(env.REMIX_APP_URL) THEN AppUrlMissing ELSE SecretMissing

HasLinkedCustomer ==
  /\ IsSome(TheOrder.customer)
  /\ IsSome(Val(TheOrder.customer).id)
  /\ Val(Val(TheOrder.customer).id) # 0

(* The message of the first failure of the invocation, in the order the   *)
(* pipeline meets them: normalizing the order, configuring the lookup,    *)
(* creating the AI client, the AI answer, configuring the delivery.       *)
OriginalFailure ==
  IF ~IsSome(TheOrder.line_items)
  THEN "Cannot read properties of undefined (reading 'map')"
  ELSE IF HasLinkedCustomer /\ ~ConfigSet THEN ConfigMessage
  ELSE IF ~IsSome(env.OPENAI_API_KEY) THEN ApiKeyMissing
  ELSE IF generateInsightResult(Answer(CallsOf("ai")[1])).threw
  THEN generateInsightResult(Answer(CallsOf("ai")[1])).msg
  ELSE ConfigMessage

(* C6: when the delivery of the error outcome itself fails (network       *)
(* error, non-2xx answer, or an exception thrown by the delivery client), *)
(* the handler still returns 500 with the message of the original failure.*)
C6_ErrorDeliveryFailureDropped ==
  (pc = "done" /\ ErrorDeliveryFailed) =>
    result = Some([ statusCode |-> 500, body |-> [ error |-> OriginalFailure ] ])

(* Generation failed, the error record was answered 401, and the handler  *)
(* has returned                                                           *)
C6_Witness ==
  /\ pc = "done"
  /\ GenerationFailed
  /\ ErrorDeliveryFailed
  /\ ConfigSet
  /\ Answer(IngestCalls[1]).net = "ok"
  /\ Answer(IngestCalls[1]).status = 401

(* The customer-data lookup has been answered *)
LookupAnswered ==
  /\ CallsOf("lookup") # << >>
  /\ IsAnswered(CallsOf("lookup")[1])

LookupAnswer == Answer(CallsOf("lookup")[1])

(* The answer is a lookup failure: network error, unparseable body,       *)
(* non-2xx status, or a body that lacks success or a customer             *)
LookupFailure(response) ==
  \/ response.net = "error"
  \/ ~IsSome(response.json)
  \/ response.status < 200 \/ response.status > 299
  \/ ~Val(response.json).success
  \/ ~IsSome(Val(response.json).customer)

(* The handler classified from an authoritative snapshot *)
Authoritative == PassedBoundary /\ LookupAnswered /\ ~LookupFailure(LookupAnswer)
Snapshot == Val(Val(LookupAnswer.json).customer)

CustomerTypes == { "first-time", "repeat", "vip" }

CompletedPayloads ==
  { IngestCalls[i].body : i \in { j \in DOMAIN IngestCalls : IngestCalls[j].body.status = "completed" } }

(* C7: on the authoritative path every snapshot with order count <= 1     *)
(* classifies as first-time, whatever its lifetime spend.                 *)
C7_FirstTimeBeforeVip ==
  (Authoritative /\ Snapshot.numberOfOrders <= 1) =>
    /\ IsSome(customerData)
    /\ Val(customerData).customerType = "first-time"
    /\ \A p \in CompletedPayloads : p.customerType = "first-time"

(* A snapshot with one order and a lifetime spend of 523.50 was           *)
(* classified first-time and the insight delivered                        *)
C7_Witness ==
  /\ Authoritative
  /\ Snapshot.numberOfOrders = 1
  /\ Snapshot.amountSpent = 52350
  /\ pc = "done"
  /\ Val(result).statusCode = 200
  /\ \E p \in CompletedPayloads : p.customerType = "first-time"

C8_WitnessRepeat ==
  /\ Authoritative
  /\ Snapshot.numberOfOrders = 4
  /\ Snapshot.amountSpent = 49999
  /\ Val(customerData).customerType = "repeat"

(* C9: for an order with no customer reference the classification the     *)
(* handler uses is first-time, with lifetime spend 0 and no               *)
(* days-since-first-order.                                                *)
C9_GuestFirstTime ==
  (PassedBoundary /\ ~IsSome(TheOrder.customer) /\ IsSome(customerData)) =>
    /\ Val(customerData).customerType = "first-time"
    /\ Val(customerData).totalSpent = 0
    /\ Val(customerData).daysSinceFirstOrder = None
    /\ \A p \in CompletedPayloads : p.customerType = "first-time"

(* A guest order went through the pipeline and its insight was delivered  *)
C9_Witness ==
  /\ PassedBoundary
  /\ ~IsSome(TheOrder.customer)
  /\ pc = "done"
  /\ Val(result).statusCode = 200
  /\ \E p \in CompletedPayloads : p.customerType = "first-time"

AIAnswered == CallsOf("ai") # << >> /\ IsAnswered(CallsOf("ai")[1])
AISucceeded == AIAnswered /\ ~generateInsightResult(Answer(CallsOf("ai")[1])).threw

HeuristicResults ==
  { processCustomerDataFallback(TheOrder.customer, TheOrder.created_at, now) : now \in Nows }

(* C10: a failed customer-data lookup does not fail the handler: it       *)
(* classifies with the heuristic fallback and goes on to the AI call and   *)
(* the insight delivery; the lookup failure alone causes no error status   *)
(* and no error-status record.                                             *)
C10_LookupFailureRecovered ==
  (PassedBoundary /\ LookupAnswered /\ LookupFailure(LookupAnswer)) =>
    /\ IsSome(customerData) /\ Val(customerData) \in HeuristicResults
    /\ IsSome(env.OPENAI_API_KEY) => CallsOf("ai") # << >>
    /\ IsSome(errorMessage) =>
         (~IsSome(env.OPENAI_API_KEY) \/ (AIAnswered /\ ~AISucceeded))
    /\ AISucceeded =>
         /\ Len(IngestCalls) = 1
         /\ IngestCalls[1].body.status = "completed"
         /\ IngestCalls[1].body.customerType = Val(customerData).customerType
    /\ (pc = "done" /\ AISucceeded /\ ~HttpFailed(Answer(IngestCalls[1]))
          /\ IsSome(Answer(IngestCalls[1]).json)) =>
         Val(result).statusCode = 200

(* The lookup was answered 200 without a customer, the heuristic said     *)
(* repeat, and the insight was delivered                                  *)
C10_Witness ==
  /\ PassedBoundary /\ LookupAnswered
  /\ LookupAnswer.net = "ok" /\ LookupAnswer.status = 200
  /\ LookupFailure(LookupAnswer)
  /\ Val(LookupAnswer.json).success
  /\ Val(customerData).customerType = "repeat"
  /\ pc = "done"
  /\ Val(result).statusCode = 200
  /\ \E p \in CompletedPayloads : p.customerType = "repeat"

(* The handler classified with the heuristic, from the customer embedded  *)
(* in the order                                                           *)
FallbackWithCustomer ==
  /\ PassedBoundary
  /\ LookupAnswered
  /\ LookupFailure(LookupAnswer)
  /\ IsSome(customerData)

TheCustomer == Val(TheOrder.customer)

(* Two instants less than 60 seconds apart *)
Within60s(a, b) == a - b < 60000 /\ b - a < 60000

(* What the fallback path gives when the order is (first) or is not taken *)
(* to be the customer's first                                             *)
FallbackOutcome(cd, first) ==
  /\ cd.customerType # "vip"
  /\ first => (cd.customerType = "first-time" /\ cd.ordersCount = 1)
  /\ ~first => (cd.customerType = "repeat" /\ cd.ordersCount = 2 /\ cd.totalSpent = 0)
  /\ \A p \in CompletedPayloads : p.customerType = cd.customerType

(* C11 as stated: on the fallback path with a customer present the        *)
(* classification is first-time (order count 1) iff the gap between the    *)
(* customer's account-creation timestamp and the order's creation          *)
(* timestamp is under 60 seconds; in every other case it is repeat with    *)
(* order count 2 and lifetime spend 0; it is never vip.                    *)
C11_Original ==
  FallbackWithCustomer =>
    FallbackOutcome(Val(customerData),
                    /\ IsSome(TheCustomer.created_at)
                    /\ IsSome(TheOrder.created_at)
                    /\ Within60s(Val(TheOrder.created_at), Val(TheCustomer.created_at)))

(* C11 (amended): on the fallback path with a customer present the        *)
(* classification is first-time (order count 1) iff the customer has no    *)
(* account-creation timestamp or that timestamp is less than 60 seconds    *)
(* from the order's creation timestamp (from the current time when the     *)
(* order has none); in every other case it is repeat with order count 2    *)
(* and lifetime spend 0; it is never vip.                                  *)
C11_FallbackHeuristic ==
  FallbackWithCustomer =>
    \E now \in Nows :
      /\ IsSome(TheCustomer.created_at) =>
           Val(customerData).daysSinceFirstOrder
             = Some((now - Val(TheCustomer.created_at)) \div 86400000)
      /\ FallbackOutcome(Val(customerData),
                         \/ ~IsSome(TheCustomer.created_at)
                         \/ Within60s(IF IsSome(TheOrder.created_at)
                                      THEN Val(TheOrder.created_at) ELSE now,
                                      Val(TheCustomer.created_at)))

(* An account created exactly 60 seconds before the order was classified  *)
(* repeat with two orders, and the insight delivered                      *)
C11_Witness ==
  /\ FallbackWithCustomer
  /\ TheOrder.created_at = Some(60000)
  /\ TheCustomer.created_at = Some(0)
  /\ Val(customerData).customerType = "repeat"
  /\ Val(customerData).ordersCount = 2
  /\ \E p \in CompletedPayloads : p.customerType = "repeat"

(***************************************************************************)
(* Properties of the ingestion endpoint and its table.                     *)
(***************************************************************************)
TheRequest(p) == Val(slot[p].req)
ThePayload(p) == TheRequest(p).body.obj

(* The positions of the rows of a (shop, orderId) pair *)
RowsOf(rows, shop_, orderId_) ==
  { i \in DOMAIN rows : rows[i].shop = shop_ /\ rows[i].orderId = orderId_ }

(* Slot p is answered 200 in this step: its payload has been accepted *)
Accepted(p) ==
  /\ slot[p].pc = "write"
  /\ slot'[p].pc = "done"
  /\ Val(slot'[p].resp).status = 200

(* Every column of the row carries the value the payload gives for it: a  *)
(* column the payload has no value for is NULL, a missing status is        *)
(* completed.  Nothing is said of a value given as "" or 0.                *)
Reflects(row, d) ==
  /\ row.shop = d.shop.v
  /\ row.orderId = d.orderId.v
  /\ row.orderName = d.orderName.v
  /\ row.insightText = d.insightText.v
  /\ \A f \in { "followupSubject", "followupBody", "customerType", "errorMessage" } :
       /\ (f \in DOMAIN d /\ d[f].v # "") => row[f] = Some(d[f].v)
       /\ f \notin DOMAIN d => row[f] = None
  /\ ("orderValue" \in DOMAIN d /\ d.orderValue.n # 0) => row.orderValue = Some(d.orderValue.n)
  /\ "orderValue" \notin DOMAIN d => row.orderValue = None
  /\ ("status" \in DOMAIN d /\ d.status.v # "") => row.status = d.status.v
  /\ "status" \notin DOMAIN d => row.status = "completed"

(* C12: when a payload is accepted there is exactly one stored record for  *)
(* its (shop, orderId), and every field of that record reflects this       *)
(* payload, whatever an earlier accepted payload for the pair had stored:  *)
(* after two accepted payloads the record is the second's, not the first's *)
(* and not a mix of both.                                                  *)
C12_LatestPayloadStored ==
  [][ \A p \in Slots :
        Accepted(p) =>
          LET d == ThePayload(p)
              at == RowsOf(store', d.shop.v, d.orderId.v)
          IN /\ Cardinality(at) = 1
             /\ \A i \in at : Reflects(store'[i], d) ]_vars

(* InsightA and then InsightB were accepted for the same pair: the one     *)
(* record was created by the first delivery, rewritten by the second, and  *)
(* holds the second's values                                               *)
C12_Witness ==
  /\ Len(store) = 1
  /\ store[1].updatedAt > store[1].createdAt
  /\ Reflects(store[1], InsightB)
  /\ store[1].followupBody = None
  /\ \E p, q \in Slots :
       /\ slot[p].pc = "done" /\ slot[q].pc = "done"
       /\ ThePayload(p) = InsightA /\ ThePayload(q) = InsightB
       /\ Val(slot[p].resp).status = 200 /\ Val(slot[q].resp).status = 200
       /\ Val(slot[p].resp).body.id = Val(slot[q].resp).body.id

(* C13: in every reachable state of the table, whatever deliveries were    *)
(* retried, duplicated or ran concurrently, there is at most one record    *)
(* per (shop, orderId) pair.                                               *)
C13_OneRowPerPair ==
  \A i, j \in DOMAIN store :
    (store[i].shop = store[j].shop /\ store[i].orderId = store[j].orderId) => i = j

(* Two deliveries for one pair both found no row; one inserted it and the *)
(* other was refused by the unique index                                  *)
C13_Witness ==
  \E p, q \in Slots :
    /\ p # q
    /\ slot[p].pc = "done" /\ slot[q].pc = "done"
    /\ TheRequest(p).body = JsonBody(InsightA)
    /\ TheRequest(q).body \in { JsonBody(InsightA), JsonBody(InsightB) }
    /\ SlotKey(p) = SlotKey(q)
    /\ Val(slot[p].resp).status = 200
    /\ Val(slot[q].resp) = json(500, [ error |-> SaveFailed ])
    /\ Cardinality(RowsOf(store, SlotKey(p)[1], SlotKey(p)[2])) = 1

(* The secrets clients and the server hold *)
Secrets == { "s3cret", "wr0ng" }

(* The request in slot p is a POST that has been taken in *)
Posted(p) == IsSome(slot[p].req) /\ TheRequest(p).method = "POST"

(* The request in slot p got past the signature check *)
VerificationSucceeded(p) ==
  \/ slot[p].pc \in { "find", "write" }
  \/ slot[p].pc = "done" /\ Val(slot[p].resp).status # 401

(* C14: signature round trip.  For a request that carries sign(B, S), the  *)
(* verification by a server that holds S' over the body B' it received     *)
(* succeeds when B' = B and S' = S, fails when S' differs from S, and      *)
(* fails when B' differs from B.                                           *)
C14_SignatureRoundTrip ==
  \A p \in Slots : \A B \in IngestBodies, S \in Secrets :
    ( /\ Posted(p)
      /\ IsSome(appEnv.HMAC_SECRET)
      /\ TheRequest(p).hmac = Some(signPayload(B, S)) ) =>
      /\ (TheRequest(p).body = B /\ Val(appEnv.HMAC_SECRET) = S) => VerificationSucceeded(p)
      /\ Val(appEnv.HMAC_SECRET) # S => ~VerificationSucceeded(p)
      /\ TheRequest(p).body # B => ~VerificationSucceeded(p)

(* One request carrying the signature of its own body was accepted, and    *)
(* one carrying the signature of another body under the same secret was    *)
(* refused                                                                 *)
C14_Witness ==
  /\ appEnv.HMAC_SECRET = Some("s3cret")
  /\ \E p, q \in Slots :
       /\ slot[p].pc = "done" /\ slot[q].pc = "done"
       /\ TheRequest(p) = [ method |-> "POST", body |-> JsonBody(InsightA),
                            hmac |-> Some(signPayload(JsonBody(InsightA), "s3cret")) ]
       /\ Val(slot[p].resp).status = 200
       /\ TheRequest(q) = [ method |-> "POST", body |-> JsonBody(InsightA),
                            hmac |-> Some(signPayload(JsonBody(InsightB), "s3cret")) ]
       /\ Val(slot[q].resp).status = 401

(* The HMAC of a body under a secret *)
HmacOf(body, secret) == [ hmac |-> << secret, body >> ]

(* The request in slot p is a POST whose signature header is missing, or   *)
(* differs from the HMAC of the body received under the server's secret    *)
BadSignature(p) ==
  /\ Posted(p)
  /\ \/ ~IsSome(TheRequest(p).hmac)
     \/ /\ IsSome(appEnv.HMAC_SECRET)
        /\ Val(TheRequest(p).hmac) # HmacOf(TheRequest(p).body, Val(appEnv.HMAC_SECRET))

(* C15: every POST whose signature header is missing or differs from the   *)
(* HMAC of the received body under the server's secret is answered 401     *)
(* without reaching the upsert, and the step that takes it in leaves the   *)
(* table as it was.                                                        *)
C15_BadSignatureRejected ==
  /\ [](\A p \in Slots :
          BadSignature(p) => (slot[p].pc = "done" /\ Val(slot[p].resp).status = 401))
  /\ [][ \A p \in Slots :
           (slot'[p] # slot[p] /\ BadSignature(p)') => store' = store ]_vars

(* With a record stored, an unsigned request and a request signed with     *)
(* another secret have both been answered 401                              *)
C15_Witness ==
  /\ appEnv.HMAC_SECRET = Some("s3cret")
  /\ Len(store) = 1
  /\ \E p, q \in Slots :
       /\ BadSignature(p) /\ BadSignature(q)
       /\ TheRequest(p).hmac = None
       /\ TheRequest(q).hmac = Some(signPayload(JsonBody(InsightA), "wr0ng"))
       /\ Val(slot[p].resp) = json(401, [ error |-> MissingSignature ])
       /\ Val(slot[q].resp) = json(401, [ error |-> InvalidSignature ])

(* The request in slot p is a POST signed with the server's secret *)
CorrectlySigned(p) ==
  /\ Posted(p)
  /\ IsSome(appEnv.HMAC_SECRET)
  /\ TheRequest(p).hmac = Some(HmacOf(TheRequest(p).body, Val(appEnv.HMAC_SECRET)))

(* The body is not valid JSON, lacks one of shop, orderId, orderName,     *)
(* insightText or has it as something other than a string, or gives a     *)
(* status or a customerType that is not one of the recognised values      *)
MalformedBody(body) ==
  \/ body.text = "not-json"
  \/ body.text = "null"
  \/ /\ body.text = "json"
     /\ \/ \E f \in { "shop", "orderId", "orderName", "insightText" } :
             f \notin DOMAIN body.obj \/ body.obj[f].type # "string"
        \/ /\ "status" \in DOMAIN body.obj
           /\ ~(/\ body.obj.status.type = "string"
                /\ body.obj.status.v \in { "pending", "completed", "error" })
        \/ /\ "customerType" \in DOMAIN body.obj
           /\ ~(/\ body.obj.customerType.type = "string"
                /\ body.obj.customerType.v \in { "first-time", "repeat", "vip" })

(* C16: a correctly signed POST whose body is not valid JSON, lacks a     *)
(* required string field, or gives an unrecognised status or customerType *)
(* is answered 400, and the table is left unchanged.                       *)
C16_MalformedRejected ==
  /\ [](\A p \in Slots :
          (CorrectlySigned(p) /\ MalformedBody(TheRequest(p).body)) =>
            (slot[p].pc = "done" /\ Val(slot[p].resp).status = 400))
  /\ [][ \A p \in Slots :
           (slot'[p] # slot[p] /\ CorrectlySigned(p)' /\ MalformedBody(TheRequest(p).body)') =>
             store' = store ]_vars

(***************************************************************************)
(* Properties of the Insight Generator and of the calls of an invocation.  *)
(***************************************************************************)
TheCompletion == Answer(CallsOf("ai")[1])

RequiredFields == { "insight", "followupSubject", "followupBody" }

(* The provider returned content, and it is not empty *)
HasContent(response) ==
  /\ response.kind = "resolved"
  /\ IsSome(response.content)
  /\ Val(response.content).text # "empty"

ParsesAsJson(response) == Val(response.content).text = "json"

(* All three required fields are there and are strings *)
AllStrings(obj) == \A f \in RequiredFields : f \in DOMAIN obj /\ obj[f].type = "string"

(* C17: generateInsight returns a result only when the provider's content  *)
(* is non-empty, parses as JSON and has string values for insight,         *)
(* followupSubject and followupBody, and the result then has all three;    *)
(* it fails with the empty-response failure when there is no content, with *)
(* the malformed-response failure when the content does not parse, and     *)
(* with an incomplete-response failure when a required field is missing or *)
(* not a string.  The handler sees that failure's message.                 *)
C17_GenerateInsightValidates ==
  AIAnswered =>
    LET response == TheCompletion
        r == generateInsightResult(response)
    IN /\ ~r.threw =>
            /\ HasContent(response) /\ ParsesAsJson(response)
            /\ AllStrings(Val(response.content).obj)
            /\ AllStrings(r.val)
            /\ ~IsSome(errorMessage) \/ Val(errorMessage) \in { AppUrlMissing, SecretMissing }
       /\ (response.kind = "resolved" /\ ~HasContent(response)) =>
            (r.threw /\ r.msg = EmptyResponse)
       /\ (HasContent(response) /\ ~ParsesAsJson(response)) =>
            (r.threw /\ r.msg = MalformedResponse)
       /\ (HasContent(response) /\ ParsesAsJson(response)
             /\ ~AllStrings(Val(response.content).obj)) =>
            (r.threw /\ r.msg \in { MissingInsight, MissingSubject, MissingBody })
       /\ r.threw => errorMessage = Some(r.msg)

(* The provider answered JSON whose insight is a number: the generator    *)
(* failed with the incomplete-response failure and the handler returned   *)
C17_Witness ==
  /\ AIAnswered
  /\ HasContent(TheCompletion) /\ ParsesAsJson(TheCompletion)
  /\ "insight" \in DOMAIN Val(TheCompletion.content).obj
  /\ Val(TheCompletion.content).obj.insight = JNum
  /\ errorMessage = Some(MissingInsight)
  /\ pc = "done"

(* C18: within one invocation the customer-data lookup is called at most   *)
(* once and the AI completion provider at most once, whatever they         *)
(* answer: a call that failed is not repeated.                             *)
C18_NoRetry ==
  /\ Len(CallsOf("lookup")) <= 1
  /\ Len(CallsOf("ai")) <= 1
  /\ \A i \in DOMAIN calls :
       (calls[i].kind \in { "lookup", "ai" } /\ IsAnswered(calls[i])) =>
         \A j \in DOMAIN calls : j > i => calls[j].kind # calls[i].kind

(* The lookup failed on the network and the provider call was rejected;   *)
(* the handler returned having made each call once                        *)
C18_Witness ==
  /\ pc = "done"
  /\ LookupAnswered /\ LookupAnswer.net = "error"
  /\ AIAnswered /\ TheCompletion.kind = "rejected"
  /\ Len(CallsOf("lookup")) = 1
  /\ Len(CallsOf("ai")) = 1
  /\ Val(result).statusCode = 500

(* The include-customer-name setting is anything but exactly "true" *)
FlagUnset == env.INCLUDE_CUSTOMER_NAME # Some("true")

ThePrompt == CallsOf("ai")[1].body

(* First and last names a customer can have *)
Names == { None, Some("Bob") }

(* C19: when the include-customer-name setting is anything other than      *)
(* exactly "true", the prompt sent to the provider has the placeholder     *)
(* "the customer" where the name would be, no part of it is the customer's *)
(* first or last name, and a customer that differs only in first and last  *)
(* name yields the same prompt.                                            *)
C19_NameWithheld ==
  (CallsOf("ai") # << >> /\ FlagUnset) =>
    /\ ThePrompt.customer = "the customer"
    /\ \A k \in DOMAIN ThePrompt :
         /\ IsSome(Val(customerData).firstName) => ThePrompt[k] # Val(Val(customerData).firstName)
         /\ IsSome(Val(customerData).lastName) => ThePrompt[k] # Val(Val(customerData).lastName)
    /\ \A fn \in Names, ln \in Names :
         buildPrompt(Val(orderData),
                     [ Val(customerData) EXCEPT !.firstName = fn, !.lastName = ln ],
                     FALSE) = ThePrompt

(* With the setting at "TRUE", the prompt for a customer the webhook names *)
(* Ann Lee was sent with the placeholder                                   *)
C19_Witness ==
  /\ env.INCLUDE_CUSTOMER_NAME = Some("TRUE")
  /\ CallsOf("ai") # << >>
  /\ Val(customerData).firstName = Some("Ann")
  /\ Val(customerData).lastName = Some("Lee")
  /\ ThePrompt.customer = "the customer"

(***************************************************************************)
(* Scenario A, end to end.                                                 *)
(***************************************************************************)
(* An event that passed the boundary checks, for an order of 85.00 without *)
(* discount linked to a customer with one order; the insight was generated *)
(* and its delivery answered with success                                  *)
ScenarioA ==
  /\ PassedBoundary
  /\ TheOrder.total_price = "85.00"
  /\ TheOrder.discount_codes = << >>
  /\ HasLinkedCustomer
  /\ TheCustomer.orders_count = Some(1)
  /\ Authoritative => Snapshot.numberOfOrders = 1
  /\ AISucceeded
  /\ pc = "done"
  /\ Len(IngestCalls) = 1
  /\ ~HttpFailed(Answer(IngestCalls[1]))
  /\ Val(result).statusCode = 200

DeliveredPayload == IngestCalls[1].body

C20_WitnessAuthoritative ==
  /\ ScenarioA
  /\ Authoritative
  /\ DeliveredPayload.customerType = "first-time"
  /\ DeliveredPayload.orderValue = Some(8500)

(***************************************************************************)
(* C21: the stored error detail goes with the error status                 *)
(***************************************************************************)

(* C21: every record in the table has a non-null errorMessage if and only *)
(* if its status is error.                                                *)
C21_ErrorDetailIffError ==
  \A i \in DOMAIN store :
    IsSome(store[i].errorMessage) <=> store[i].status = "error"

(***************************************************************************)
(* C22: a malformed price fails the normalization                          *)
(***************************************************************************)

(* The numeric strings of the orders: decimal numerals *)
DecimalStrings == { "85.00", "42.50", "523.50", "0.00" }

(* The order's total price, or the price of one of its line items, is not *)
(* a numeral                                                              *)
MalformedPrice(order) ==
  \/ order.total_price \notin DecimalStrings
  \/ /\ IsSome(order.line_items)
     /\ \E i \in DOMAIN Val(order.line_items) :
          Val(order.line_items)[i].price \notin DecimalStrings

(* C22: for an order whose total price or a line item's price is a        *)
(* malformed numeric string, the Order Normalizer returns no normalized   *)
(* order (it fails, and the failure reaches the handler), and no payload  *)
(* with status completed is sent for that order.                          *)
C22_MalformedPriceFails ==
  (PassedBoundary /\ MalformedPrice(TheOrder)) =>
    /\ orderData = None
    /\ CompletedPayloads = {}

(***************************************************************************)
(* C23: what an invocation inherits from earlier invocations               *)
(***************************************************************************)

(* Nothing of an invocation's own frame is left *)
FrameGone ==
  /\ event = None
  /\ shop = None
  /\ orderId = None
  /\ orderName = None
  /\ orderData = None
  /\ customerData = None
  /\ errorMessage = None
  /\ calls = << >>
  /\ result = None

(* The process as it is after construction, before any invocation *)
ColdClient == None

(* The client an invocation obtains in this process is the one it would   *)
(* obtain in a process where no invocation ran before                     *)
ClientAsCold == getOpenAIClient(openaiClient, env) = getOpenAIClient(ColdClient, env)

(* C23 as stated: invocations share no mutable state (between invocations *)
(* the process is as it was after construction), and the outcome of an    *)
(* invocation does not depend on earlier invocations.                     *)
C23_Original ==
  /\ pc = "idle" => (FrameGone /\ openaiClient = ColdClient)
  /\ ClientAsCold

(* C23 (amended): the only state an invocation inherits from earlier      *)
(* invocations of the process is the cached OpenAI client, and that       *)
(* client is the one a first invocation would build from the same         *)
(* configuration: every invocation starts from an empty frame and obtains *)
(* the same client, or the same failure, as in a fresh process.           *)
C23_OnlyClientShared ==
  /\ pc = "idle" => FrameGone
  /\ ClientAsCold
  /\ IsSome(openaiClient) =>
       /\ IsSome(env.OPENAI_API_KEY)
       /\ openaiClient = Some([ apiKey |-> Val(env.OPENAI_API_KEY) ])

(* An invocation that made no AI call runs in a process whose client an   *)
(* earlier invocation created                                             *)
C23_Witness ==
  /\ pc = "done"
  /\ CallsOf("ai") = << >>
  /\ IsSome(openaiClient)
  /\ Val(result).statusCode = 400

(***************************************************************************)
(* C24: the required fields of the payloads the handler sends              *)
(***************************************************************************)

RequiredPayloadFields == { "shop", "orderId", "orderName", "insightText" }

(* The payload carries a non-empty string under each required field *)
CarriesRequired(body) ==
  \A f \in RequiredPayloadFields : f \in DOMAIN body /\ body[f] # ""

(* The required fields of a sent body, as the ingestion endpoint parses   *)
(* them                                                                   *)
ReceivedRequired(body) ==
  [ f \in RequiredPayloadFields \cap DOMAIN body |-> JStr(body[f]) ]

(* C24: every payload the handler sends to the ingestion route, success   *)
(* or error variant, carries non-empty strings for shop, orderId,         *)
(* orderName and insightText, and passes the endpoint's required-field    *)
(* validation.                                                            *)
C24_RequiredFieldsSent ==
  \A i \in DOMAIN IngestCalls :
    /\ CarriesRequired(IngestCalls[i].body)
    /\ \A f \in RequiredPayloadFields :
         ~requiredInvalid(ReceivedRequired(IngestCalls[i].body), f)

(***************************************************************************)
(* C25: every invocation ends by returning a result                        *)
(***************************************************************************)

ResultStatuses == { 200, 400, 500 }

(* The places an invocation can be at: suspended at one of its awaits, or *)
(* returned                                                               *)
Suspended == { "lookup", "generate", "postInsight", "postError" }

(* The handler returned the success result *)
SuccessResult ==
  /\ IsSome(result)
  /\ Val(result).statusCode = 200
  /\ "success" \in DOMAIN Val(result).body

(* The ingestion route answered the delivery of the insight with 2xx *)
InsightAccepted ==
  \E i \in DOMAIN IngestCalls :
    /\ IngestCalls[i].body.status = "completed"
    /\ IsAnswered(IngestCalls[i])
    /\ Answer(IngestCalls[i]).net = "ok"
    /\ Answer(IngestCalls[i]).status \in 200..299

(* C25: an invocation is either suspended at an await or has returned a   *)
(* result whose status is 200, 400 or 500 (no failure leaves the handler  *)
(* as an exception), and the 200 success result, which carries orderId    *)
(* and insightId, is returned only if the ingestion route answered the    *)
(* insight delivery with a 2xx response.                                  *)
C25_ReturnsResult ==
  /\ Running => pc \in Suspended \cup { "done" }
  /\ pc = "done" <=> IsSome(result)
  /\ pc = "done" => Val(result).statusCode \in ResultStatuses
  /\ SuccessResult =>
       /\ { "orderId", "insightId" } \subseteq DOMAIN Val(result).body
       /\ InsightAccepted

(* An invocation returned the success result *)
C25_Witness ==
  /\ pc = "done"
  /\ SuccessResult
  /\ InsightAccepted
  /\ Val(result).body.insightId = Some("ins_1")

(* An invocation in which the normalization threw returned 500 *)
C25_WitnessFailure ==
  /\ pc = "done"
  /\ PassedBoundary
  /\ ~IsSome(TheOrder.line_items)
  /\ Val(result).statusCode = 500

(***************************************************************************)
(* C26: the Delivery Client's requests at the receiving endpoints          *)
(***************************************************************************)

(* The requests the Delivery Client signed: lookups and deliveries *)
SignedCalls == { i \in DOMAIN calls : calls[i].kind \in { "lookup", "ingest" } }

(* Call i as the receiving endpoint gets it: the transmitted body and the *)
(* signature header                                                       *)
Received(i) == [ method |-> "POST", hmac |-> Some(calls[i].signature), body |-> calls[i].body ]

(* A receiver configured with secret s *)
Receiver(s) == [ HMAC_SECRET |-> Some(s) ]

(* C26: a request sent by the Delivery Client passes the receiver's       *)
(* signature verification if and only if the receiver holds the sender's  *)
(* secret; a receiver holding another secret answers it 401 before        *)
(* anything is parsed or stored.                                          *)
C26_SameSecretVerifies ==
  \A i \in SignedCalls : \A s \in Secrets :
    /\ verifySignature(Received(i), Receiver(s)) = None <=> env.HMAC_SECRET = Some(s)
    /\ env.HMAC_SECRET # Some(s) =>
         reject(Received(i), Receiver(s)) = Some(json(401, [ error |-> InvalidSignature ]))

(* A lookup and a delivery are on the wire *)
C26_Witness ==
  /\ \E i \in SignedCalls : calls[i].kind = "lookup"
  /\ \E i \in SignedCalls : calls[i].kind = "ingest" /\ calls[i].body.status = "completed"
  /\ \A i \in SignedCalls : verifySignature(Received(i), Receiver("s3cret")) = None
  /\ \A i \in SignedCalls : verifySignature(Received(i), Receiver("wr0ng")) # None

(***************************************************************************)
(* C27: the signature check comes before the body is looked at             *)
(***************************************************************************)

SignatureRefusals ==
  { json(401, [ error |-> MissingSignature ]), json(401, [ error |-> InvalidSignature ]) }

(* C27: a POST whose signature is missing or wrong is answered 401 even   *)
(* when its body is not JSON, lacks a required field or carries an        *)
(* invalid enum value; a request that is answered 400 carried the correct *)
(* signature.                                                             *)
C27_SignatureBeforeBody ==
  \A p \in Slots :
    /\ (BadSignature(p) /\ MalformedBody(TheRequest(p).body)) =>
         (slot[p].pc = "done" /\ Val(slot[p].resp) \in SignatureRefusals)
    /\ (Posted(p) /\ slot[p].pc = "done" /\ Val(slot[p].resp).status = 400) =>
         CorrectlySigned(p)

(* A server holding another secret than the client refused a body that is *)
(* not JSON, a body without orderName and a body with an unknown status   *)
(* with 401; the unsigned body that is not JSON was refused as well       *)
C27_Witness ==
  /\ appEnv.HMAC_SECRET = Some("wr0ng")
  /\ \E p, q \in Slots :
       /\ p # q
       /\ BadSignature(p) /\ BadSignature(q)
       /\ TheRequest(p).body = JsonBody([ InsightA EXCEPT !.status = JStr("archived") ])
       /\ Val(slot[p].resp) = json(401, [ error |-> InvalidSignature ])
       /\ TheRequest(q) = [ method |-> "POST", hmac |-> None, body |-> [ text |-> "not-json" ] ]
       /\ Val(slot[q].resp) = json(401, [ error |-> MissingSignature ])

(***************************************************************************)
(* C28: an error delivery over a completed record                          *)
(***************************************************************************)

(* The payload is the error variant *)
ErrorVariant(d) ==
  /\ "status" \in DOMAIN d /\ d.status = JStr("error")
  /\ d.insightText = JStr(ErrorInsightText)
  /\ "errorMessage" \in DOMAIN d /\ d.errorMessage.type = "string" /\ d.errorMessage.v # ""
  /\ DOMAIN d \cap { "followupSubject", "followupBody", "customerType", "orderValue" } = {}

(* The pair of the payload in slot p holds a completed record *)
HoldsCompleted(p) ==
  \E i \in RowsOf(store, ThePayload(p).shop.v, ThePayload(p).orderId.v) :
    store[i].status = "completed"

(* The record is an error record with the given message and nothing of   *)
(* an insight                                                             *)
ErrorRecord(row, message) ==
  /\ row.status = "error"
  /\ row.insightText = ErrorInsightText
  /\ row.errorMessage = Some(message)
  /\ row.followupSubject = None
  /\ row.followupBody = None
  /\ row.customerType = None
  /\ row.orderValue = None

(* C28: when an error-variant delivery is accepted for a (shop, orderId)  *)
(* that holds a completed record, the pair afterwards has a single record *)
(* with status error, insight text "Error generating insight", the        *)
(* delivered error message, and null follow-up subject, follow-up body,   *)
(* customer type and order value.                                         *)
C28_ErrorOverwritesCompleted ==
  [][ \A p \in Slots :
        (Accepted(p) /\ ErrorVariant(ThePayload(p)) /\ HoldsCompleted(p)) =>
          LET d == ThePayload(p)
              rows == RowsOf(store', d.shop.v, d.orderId.v)
          IN /\ Cardinality(rows) = 1
             /\ \A i \in rows : ErrorRecord(store'[i], d.errorMessage.v) ]_vars

(* InsightA was stored and ErrorE was then accepted for the same pair: the *)
(* one record is the error record                                         *)
C28_Witness ==
  /\ Len(store) = 1
  /\ store[1].updatedAt > store[1].createdAt
  /\ ErrorRecord(store[1], EmptyResponse)
  /\ store[1].orderName = "#1001"
  /\ \E p, q \in Slots :
       /\ slot[p].pc = "done" /\ slot[q].pc = "done"
       /\ TheRequest(p).body = JsonBody(InsightA) /\ TheRequest(q).body = JsonBody(ErrorE)
       /\ Val(slot[p].resp).status = 200 /\ Val(slot[q].resp).status = 200
       /\ Val(slot[p].resp).body.id = Val(slot[q].resp).body.id

(***************************************************************************)
(* C29: the frame of an upsert                                             *)
(***************************************************************************)

(* The composite key of a record *)
KeyOf(row) == << row.shop, row.orderId >>

(* The upsert of slot p, whose payload has the key k, writes in this step *)
WritesKey(p, k) ==
  /\ slot[p].pc = "write"
  /\ slot'[p].pc = "done"
  /\ << ThePayload(p).shop.v, ThePayload(p).orderId.v >> = k

(* C29: a step changes or creates a record only by an upsert for that    *)
(* record's (shop, orderId): every record stays in the table under its    *)
(* key, a record with another shop or another orderId than the upsert's   *)
(* is unchanged, and an accepted upsert leaves a record under its own     *)
(* key, next to the records of other shops with the same orderId.         *)
C29_UpsertFrame ==
  [][ /\ \A i \in DOMAIN store :
           /\ i \in DOMAIN store'
           /\ KeyOf(store'[i]) = KeyOf(store[i])
           /\ store'[i] # store[i] => \E p \in Slots : WritesKey(p, KeyOf(store[i]))
      /\ \A i \in DOMAIN store' \ DOMAIN store :
           \E p \in Slots : WritesKey(p, KeyOf(store'[i]))
      /\ \A p \in Slots :
           Accepted(p) =>
             RowsOf(store', ThePayload(p).shop.v, ThePayload(p).orderId.v) # {} ]_vars

(* Two shops hold a record for order 1001, the first shop holds one for   *)
(* order 1002 as well, and the first record is as InsightA created it     *)
C29_Witness ==
  /\ Len(store) = 3
  /\ \E i, j, k \in DOMAIN store :
       /\ KeyOf(store[i]) = << "shop-a.myshopify.com", "1001" >>
       /\ KeyOf(store[j]) = << "shop-b.myshopify.com", "1001" >>
       /\ KeyOf(store[k]) = << "shop-a.myshopify.com", "1002" >>
       /\ i < j /\ j < k
       /\ Reflects(store[i], InsightA)
       /\ store[i].updatedAt = store[i].createdAt
       /\ store[j].status = "pending"

(***************************************************************************)
(* C30: the stored record carries the payload's values                     *)
(***************************************************************************)

OptionalColumns == { "followupSubject", "followupBody", "customerType", "orderValue", "errorMessage" }

(* The value a payload gives for a field *)
Given(d, f) == IF d[f].type = "number" THEN d[f].n ELSE d[f].v

(* Every column equals the payload's value, whatever the value; an        *)
(* optional column is null exactly when the payload omits the field; the  *)
(* status is the payload's, or completed when the payload omits it        *)
StoresExactly(row, d) ==
  /\ row.orderName = d.orderName.v
  /\ row.insightText = d.insightText.v
  /\ \A f \in OptionalColumns :
       row[f] = IF f \in DOMAIN d THEN Some(Given(d, f)) ELSE None
  /\ row.status = IF "status" \in DOMAIN d THEN d.status.v ELSE "completed"

(* C30: for every accepted well-formed payload, the record stored under   *)
(* (shop, orderId) has orderName and insightText equal to the payload's,  *)
(* each optional field equal to the payload's value for every value of    *)
(* the field, an order value of 0 included, and null exactly when the     *)
(* payload omits it, and the payload's status, or completed when the      *)
(* payload omits status.                                                  *)
C30_StoredEqualsPayload ==
  [][ \A p \in Slots :
        (Accepted(p) /\ ~MalformedBody(TheRequest(p).body)) =>
          LET d == ThePayload(p)
              rows == RowsOf(store', d.shop.v, d.orderId.v)
          IN /\ rows # {}
             /\ \A i \in rows : StoresExactly(store'[i], d) ]_vars

=============================================================================
